---- MODULE Spec2Model ----
(***************************************************************************)
(* A model of examples/lib/CinemaComponents.js: the Database module        *)
(* (loading, parseCSV, validation, typing, domains, axis ordering,         *)
(* getSimilar), the Pcoord / PcoordCanvas components (brushing, selection, *)
(* axis dragging, resizing, batched drawing) and the pick-index codec.     *)
(*                                                                         *)
(* Numbers.  The code computes in IEEE doubles.  Normalized values (the     *)
(* interval [0,1]) are counted in units of 1/NormScale and vertical        *)
(* coordinates in units of 1/PX pixel; the data and the sizes are chosen   *)
(* so that the values the scales compute are exact in these units.  The    *)
(* rescaling of a brush extent by updateSize is not exact in doubles: a    *)
(* vertical coordinate carries the rounding of the double (see Y).         *)
(***************************************************************************)
EXTENDS Integers, Sequences, FiniteSets, TLC

VARIABLES
    db,              \* the Database: a record of its fields
    simQuery,        \* the query of the last getSimilar call
    simThreshold,    \* the threshold of the last getSimilar call (units of 1/NormScale)
    similar,         \* the array the last getSimilar call returned
    simCalled,       \* whether getSimilar has been called
    pcoord,          \* the PcoordCanvas component: a record of its fields
    gesture,         \* history of the current axis-drag gesture (for the drag claims)
    last,            \* the handler that ran last, and the argument of setSelection
    loader,          \* the requests of the Database constructor and the callbacks it made
    csv,             \* a text given to parseCSV, and what parseCSV made of it
    codec,           \* an index given to indexToColor, and what colorToIndex read back
    pass,            \* history of the draw pass started last (for the drawing claims)
    pick             \* the pixels getIndexAtPoint read, and what it returned

simVars == <<simQuery, simThreshold, similar, simCalled>>
asideVars == <<loader, csv, codec, pass, pick>>
vars == <<db, simQuery, simThreshold, similar, simCalled, pcoord, gesture, last,
          loader, csv, codec, pass, pick>>

\* Values of the variables a specification does not use.
NoLoader == [dataCsv |-> [status |-> "none", grid |-> <<>>],
             axisCsv |-> [status |-> "none", grid |-> <<>>],
             calls |-> <<>>]
NoCsv == [text |-> <<>>, parsed |-> FALSE,
          result |-> [outcome |-> "none", grid |-> <<>>],
          resultWithNewline |-> [outcome |-> "none", grid |-> <<>>]]
NoCodec == [index |-> 0, encoded |-> FALSE, color |-> <<0, 0, 0>>, decoded |-> 0]
NoPick == [pixels |-> <<>>, called |-> FALSE, index |-> -1]
NoPass == [queue |-> <<>>, ticks |-> 0, done |-> FALSE, replaced |-> FALSE, turn |-> 0]

----------------------------------------------------------------------------
(* JavaScript values.  A cell of a parsed table is undefined or a string;  *)
(* a query may also hold numbers.                                          *)

Undef == [k |-> "undef", n |-> 0, s |-> ""]
Str(t) == [k |-> "str", n |-> 0, s |-> t]
Num(i) == [k |-> "num", n |-> i, s |-> ""]
NaNNum == [k |-> "nan", n |-> 0, s |-> ""]

\* Number(text) for the texts of the model that convert to a number;
\* every other text converts to NaN.
NumericText == ("0" :> 0) @@ ("1" :> 1) @@ ("2" :> 2) @@ ("3" :> 3) @@ ("4" :> 4) @@ ("" :> 0)

\* The global isNaN(v): Number(v) is NaN.
isNaN(v) ==
    CASE v.k = "undef" -> TRUE
      [] v.k = "nan" -> TRUE
      [] v.k = "num" -> FALSE
      [] v.k = "str" -> v.s \notin DOMAIN NumericText

\* Number(v), for a v that is not isNaN.
ToNumber(v) == IF v.k = "num" THEN v.n ELSE NumericText[v.s]

\* ToBoolean(v): undefined, "", 0 and NaN are falsy.
Truthy(v) ==
    CASE v.k = "undef" -> FALSE
      [] v.k = "nan" -> FALSE
      [] v.k = "num" -> v.n # 0
      [] v.k = "str" -> v.s # ""

\* a == b (loose equality)
LooseEq(a, b) ==
    CASE a.k = "undef" \/ b.k = "undef" -> a.k = b.k
      [] a.k = "nan" \/ b.k = "nan" -> FALSE
      [] a.k = "str" /\ b.k = "str" -> a.s = b.s
      [] OTHER -> ~isNaN(a) /\ ~isNaN(b) /\ ToNumber(a) = ToNumber(b)

\* A double that is either NaN or an exact value.
DNaN == [nan |-> TRUE, v |-> 0]
DVal(x) == [nan |-> FALSE, v |-> x]
DAdd(a, b) == IF a.nan \/ b.nan THEN DNaN ELSE DVal(a.v + b.v)
DSub(a, b) == IF a.nan \/ b.nan THEN DNaN ELSE DVal(a.v - b.v)
DAbs(a) == IF a.nan THEN DNaN ELSE DVal(IF a.v < 0 THEN -a.v ELSE a.v)
DLeq(a, b) == ~a.nan /\ ~b.nan /\ a.v <= b.v
ToDouble(v) == IF isNaN(v) THEN DNaN ELSE DVal(ToNumber(v))

Min(a, b) == IF a <= b THEN a ELSE b
Max(a, b) == IF a >= b THEN a ELSE b

----------------------------------------------------------------------------
(* Database: dimension types and domains, as the constructor computes them *)

TYPE_INTEGER == 0
TYPE_FLOAT == 1
TYPE_STRING == 2

\* The value the type of dimension d is inferred from: the first truthy cell
\* in row order, or the cell of row 0 when there is none.
RECURSIVE firstTruthyFrom(_, _, _)
firstTruthyFrom(rows, d, i) ==
    IF i > Len(rows) THEN rows[1][d]
    ELSE IF Truthy(rows[i][d]) THEN rows[i][d]
    ELSE firstTruthyFrom(rows, d, i + 1)

typeSample(rows, d) == firstTruthyFrom(rows, d, 1)

\* Number.isInteger(val): false for every value that is not of type number.
NumberIsInteger(v) == v.k = "num"

isNumericSample(val) == Truthy(val) /\ (~isNaN(val) \/ val.s \in {"NaN", "nan", "Nan", "NAN"})

inferType(rows, d) ==
    LET val == typeSample(rows, d) IN
    IF isNumericSample(val)
    THEN IF isNaN(val) \/ ~NumberIsInteger(val) THEN TYPE_FLOAT ELSE TYPE_INTEGER
    ELSE TYPE_STRING

\* The first row index (1-based) whose cell on d is not NaN, Len+1 if none.
RECURSIVE firstNumberFrom(_, _, _)
firstNumberFrom(rows, d, i) ==
    IF i > Len(rows) \/ ~isNaN(rows[i][d]) THEN i
    ELSE firstNumberFrom(rows, d, i + 1)

RECURSIVE extentFrom(_, _, _, _)
extentFrom(rows, d, j, acc) ==
    IF j > Len(rows) THEN acc
    ELSE IF ~isNaN(rows[j][d])
         THEN extentFrom(rows, d, j + 1,
                  <<Min(acc[1], ToNumber(rows[j][d])), Max(acc[2], ToNumber(rows[j][d]))>>)
         ELSE extentFrom(rows, d, j + 1, acc)

\* A variant that stops at the first number of the column.
numericDomainOfFirst(rows, d) ==
    LET i == firstNumberFrom(rows, d, 1) IN
    IF i = Len(rows) + 1 THEN <<0, 0>>
    ELSE <<ToNumber(rows[i][d]), ToNumber(rows[i][d])>>

\* The domain of a numeric dimension: <<min, max>>
numericDomain(rows, d) ==
    LET i == firstNumberFrom(rows, d, 1) IN
    IF i = Len(rows) + 1 THEN <<0, 0>>
    ELSE extentFrom(rows, d, i, <<ToNumber(rows[i][d]), ToNumber(rows[i][d])>>)

\* The domain of a string dimension: the raw column
stringDomain(rows, d) == [i \in 1..Len(rows) |-> rows[i][d]]

inferDomain(rows, d) ==
    IF inferType(rows, d) = TYPE_STRING THEN stringDomain(rows, d) ELSE numericDomain(rows, d)

Range(seq) == {seq[p] : p \in 1..Len(seq)}

\* The Database once data.csv has been loaded: dims is the header line, rows
\* the other lines as objects.
Database(rows, dims) ==
    [data |-> rows,
     dimensions |-> dims,
     dimensionTypes |-> [d \in Range(dims) |-> inferType(rows, d)],
     dimensionDomains |-> [d \in Range(dims) |-> inferDomain(rows, d)]]

\* Database.prototype.isStringDimension(dimension)
isStringDimension(database, d) == database.dimensionTypes[d] = TYPE_STRING

----------------------------------------------------------------------------
(* getSimilar                                                              *)

\* Units per 1.0 of a normalized value.
NormScale == 2

\* A variant that forgets to divide by the width of the domain.
getNormalizedValueUnscaled(val, min, max) ==
    IF max - min = 0 THEN DVal(0)
    ELSE IF isNaN(val) THEN DNaN
    ELSE DVal((ToNumber(val) - min) * NormScale)

\* getNormalizedValue(val, min, max), in units of 1/NormScale
getNormalizedValue(val, min, max) ==
    IF max - min = 0 THEN DVal(0)
    ELSE IF isNaN(val) THEN DNaN
    ELSE DVal(((ToNumber(val) - min) * NormScale) \div (max - min))

\* A variant in which a NaN query value is at distance 1 from every row value.
distTermNaNApart(database, row, query, d) ==
    IF query[d].k = "undef" THEN DVal(0)
    ELSE IF isStringDimension(database, d)
         THEN DVal(IF LooseEq(row[d], query[d]) THEN 0 ELSE NormScale)
    ELSE IF isNaN(query[d])
         THEN DVal(NormScale)
    ELSE IF row[d].k = "undef"
         THEN DVal(NormScale)
    ELSE LET extent == database.dimensionDomains[d] IN
         DAbs(DSub(getNormalizedValue(query[d], extent[1], extent[2]),
                   getNormalizedValue(row[d], extent[1], extent[2])))

\* What dimension d adds to the distance between row and query.
distTerm(database, row, query, d) ==
    IF query[d].k = "undef" THEN DVal(0)
    ELSE IF isStringDimension(database, d)
         THEN DVal(IF LooseEq(row[d], query[d]) THEN 0 ELSE NormScale)
    ELSE IF isNaN(query[d])
         THEN DVal(IF isNaN(row[d]) THEN 0 ELSE NormScale)
    ELSE IF row[d].k = "undef"
         THEN DVal(NormScale)
    ELSE LET extent == database.dimensionDomains[d] IN
         DAbs(DSub(getNormalizedValue(query[d], extent[1], extent[2]),
                   getNormalizedValue(row[d], extent[1], extent[2])))

RECURSIVE rowDist(_, _, _, _)
rowDist(database, row, query, p) ==
    IF p > Len(database.dimensions) THEN DVal(0)
    ELSE DAdd(distTerm(database, row, query, database.dimensions[p]),
              rowDist(database, row, query, p + 1))

\* A variant that keeps the rows whose distance is at least the threshold.
RECURSIVE similarFromAtLeast(_, _, _, _)
similarFromAtLeast(database, query, threshold, i) ==
    IF i > Len(database.data) THEN <<>>
    ELSE (IF DLeq(DVal(threshold), rowDist(database, database.data[i], query, 1))
          THEN <<i - 1>> ELSE <<>>)
         \o similarFromAtLeast(database, query, threshold, i + 1)

RECURSIVE similarFrom(_, _, _, _)
similarFrom(database, query, threshold, i) ==
    IF i > Len(database.data) THEN <<>>
    ELSE (IF DLeq(rowDist(database, database.data[i], query, 1), DVal(threshold))
          THEN <<i - 1>> ELSE <<>>)
         \o similarFrom(database, query, threshold, i + 1)

\* Database.prototype.getSimilar: the indices (0-based) of the similar rows
getSimilar(database, query, threshold) == similarFrom(database, query, threshold, 1)

----------------------------------------------------------------------------
(* Pcoord: scales.  Vertical coordinates are counted in units of 1/PX      *)
(* pixel; horizontal coordinates are counted in pixels.                    *)

\* Units per pixel of a vertical coordinate.
PX == 3

\* A vertical coordinate, as the double it is: the value v / PX pixels when
\* e = 0, and otherwise the |e|-th double below (e < 0) or above (e > 0) that
\* value.  The positions the scales compute are exact (e = 0).
Y(v) == [v |-> v, e |-> 0]

\* a <= b on two vertical coordinates
YLeq(a, b) == a.v < b.v \/ (a.v = b.v /\ a.e <= b.e)

\* a + k for a position a and a whole number of units k (the sum is exact)
YPlus(a, k) == [a EXCEPT !.v = @ + k]

\* The distinct values of a sequence in first-seen order: the domain an
\* ordinal d3 scale keeps of the values it is given.
RECURSIVE uniqueFrom(_, _, _)
uniqueFrom(seq, i, acc) ==
    IF i > Len(seq) THEN acc
    ELSE IF \E j \in 1..Len(acc) : acc[j] = seq[i]
         THEN uniqueFrom(seq, i + 1, acc)
         ELSE uniqueFrom(seq, i + 1, Append(acc, seq[i]))

indexOf(seq, v) == CHOOSE j \in 1..Len(seq) : seq[j] = v

\* A d3 scale of the chart: its domain and the first element of its range
\* (the second is 0).  scalePoint keeps the distinct values of the domain it
\* is given; scaleLinear keeps <<min, max>>.
yScaleFor(database, d, r0) ==
    [domain |-> IF isStringDimension(database, d)
                THEN uniqueFrom(database.dimensionDomains[d], 1, <<>>)
                ELSE database.dimensionDomains[d],
     range0 |-> r0]

\* scale(v) for d3.scalePoint().domain(...).range([range0, 0])
pointScale(scale, v) ==
    LET n == Len(scale.domain) IN
    IF n = 1 THEN Y(scale.range0 \div 2)
    ELSE Y(scale.range0 - ((indexOf(scale.domain, v) - 1) * scale.range0) \div (n - 1))

\* scale(v) for d3.scaleLinear().domain([min, max]).range([range0, 0]);
\* a domain of one point maps to range0 (d3 v4).
linearScale(scale, v) ==
    IF scale.domain[2] = scale.domain[1] THEN Y(scale.range0)
    ELSE Y(scale.range0
           - (scale.range0 * (ToNumber(v) - scale.domain[1]))
               \div (scale.domain[2] - scale.domain[1]))

\* The first element of the range of y[d] for a chart of internal height h (pixels):
\* internalHeight for a string dimension, internalHeight - NaNMargin for a numeric one.
yRangeFor(database, d, h) ==
    IF isStringDimension(database, d) THEN h * PX ELSE h * PX - (h * PX) \div 11

\* Pcoord.prototype.getYPosition(d, p)
getYPosition(database, st, d, p) ==
    IF ~isStringDimension(database, d) /\ isNaN(p[d])
    THEN Y(st.internalHeight * PX)
    ELSE IF isStringDimension(database, d)
         THEN pointScale(st.y[d], p[d])
         ELSE linearScale(st.y[d], p[d])

\* x(d): d3.scalePoint().domain(xDomain).range([0, internalWidth]).padding(1)
xScale(st, d) == (st.internalWidth * indexOf(st.xDomain, d)) \div (Len(st.xDomain) + 1)

\* A variant that ignores the position of a dragged axis.
getXPositionAtRest(st, d) == xScale(st, d)

\* Pcoord.prototype.getXPosition(d)
getXPosition(st, d) ==
    IF d \in DOMAIN st.dragging THEN st.dragging[d] ELSE xScale(st, d)

\* A variant that finds every two arrays different.
arraysEqualNever(a, b) == FALSE

\* arraysEqual(a, b)
RECURSIVE arraysEqualFrom(_, _, _)
arraysEqualFrom(a, b, i) ==
    IF i > Len(a) THEN TRUE
    ELSE IF a[i] # b[i] THEN FALSE
    ELSE arraysEqualFrom(a, b, i + 1)

arraysEqual(a, b) ==
    IF Len(a) # Len(b) THEN FALSE ELSE arraysEqualFrom(a, b, 1)

----------------------------------------------------------------------------
(* PcoordCanvas: the draw iterator                                         *)

NoIterator == [live |-> FALSE, queue |-> <<>>, i |-> 0, started |-> FALSE]

dispatch(st, type, payload) ==
    [st EXCEPT !.events = Append(@, [type |-> type, payload |-> payload])]

\* A variant that leaves a pass in flight to finish its own queue.
redrawSelectedPathsKeepingPass(st) ==
    [st EXCEPT !.painted = <<>>,
               !.drawIterator = IF @.live THEN @
                                ELSE [live |-> TRUE, queue |-> st.selection, i |-> 0,
                                      started |-> FALSE]]

\* PcoordCanvas.prototype.redrawSelectedPaths: clear the selected and index
\* canvases and replace the draw iterator by a new generator over the selection.
redrawSelectedPaths(st) ==
    [st EXCEPT !.painted = <<>>,
               !.drawIterator = [live |-> TRUE, queue |-> st.selection, i |-> 0,
                                 started |-> FALSE]]

\* Pcoord.prototype.redrawPaths (the highlighted and overlay canvases carry no state
\* of the model)
redrawPaths(st) == redrawSelectedPaths(st)

----------------------------------------------------------------------------
(* Pcoord: selection                                                       *)

\* A variant whose extents exclude their two ends.
RECURSIVE rowSelectedStrictly(_, _, _, _)
rowSelectedStrictly(database, st, row, p) ==
    IF p > Len(st.dimensions) THEN TRUE
    ELSE LET d == st.dimensions[p] IN
         IF d \in DOMAIN st.brushExtents
         THEN LET extent == st.brushExtents[d]
                  y == getYPosition(database, st, d, row)
              IN IF ~YLeq(y, extent[1]) /\ ~YLeq(extent[2], y)
                 THEN rowSelectedStrictly(database, st, row, p + 1)
                 ELSE FALSE
         ELSE rowSelectedStrictly(database, st, row, p + 1)

\* A variant that selects a row lying inside the extent of some dimension.
rowSelectedBySome(database, st, row, p) ==
    \/ \A q \in p..Len(st.dimensions) : st.dimensions[q] \notin DOMAIN st.brushExtents
    \/ \E q \in p..Len(st.dimensions) :
          LET d == st.dimensions[q] IN
          /\ d \in DOMAIN st.brushExtents
          /\ YLeq(st.brushExtents[d][1], getYPosition(database, st, d, row))
          /\ YLeq(getYPosition(database, st, d, row), st.brushExtents[d][2])

\* The body of the loop over the displayed dimensions, with its break.
RECURSIVE rowSelectedFrom(_, _, _, _)
rowSelectedFrom(database, st, row, p) ==
    IF p > Len(st.dimensions) THEN TRUE
    ELSE LET d == st.dimensions[p] IN
         IF d \in DOMAIN st.brushExtents
         THEN LET extent == st.brushExtents[d]
                  y == getYPosition(database, st, d, row)
              IN IF YLeq(extent[1], y) /\ YLeq(y, extent[2])
                 THEN rowSelectedFrom(database, st, row, p + 1)
                 ELSE FALSE
         ELSE rowSelectedFrom(database, st, row, p + 1)

RECURSIVE newSelectionFrom(_, _, _)
newSelectionFrom(database, st, i) ==
    IF i > Len(database.data) THEN <<>>
    ELSE (IF rowSelectedFrom(database, st, database.data[i], 1) THEN <<i - 1>> ELSE <<>>)
         \o newSelectionFrom(database, st, i + 1)

\* The end of updateSelection, once newSelection has been computed
selectionBecomes(st, newSelection, force) ==
    IF ~arraysEqual(st.selection, newSelection) \/ force
    THEN redrawSelectedPaths(
             dispatch([st EXCEPT !.selection = newSelection],
                      "selectionchange", newSelection))
    ELSE st

\* Pcoord.prototype.updateSelection(force)
updateSelection(database, st, force) ==
    selectionBecomes(st, newSelectionFrom(database, st, 1), force)

\* A partial function with d removed / with d set.
Without(f, d) == [x \in DOMAIN f \ {d} |-> f[x]]
With(f, d, v) == [x \in DOMAIN f \cup {d} |-> IF x = d THEN v ELSE f[x]]

NoSelection == <<>>

\* A variant that stores an extent whose ends are equal like any other.
axisBrushKeepingEmpty(database, st, d, sel) ==
    LET st1 == [st EXCEPT !.brushExtents =
                   IF sel = NoSelection THEN Without(@, d) ELSE With(@, d, sel)]
    IN IF ~st1.dontUpdateSelectionOnBrush THEN updateSelection(database, st1, FALSE)
       ELSE st1

\* Pcoord.axisBrush(d) called for a brush event whose selection is sel
\* (NoSelection for null, else <<lo, hi>>); a null extent and a deleted one
\* are both "no extent".
axisBrush(database, st, d, sel) ==
    LET st1 == [st EXCEPT !.brushExtents =
                    IF sel = NoSelection \/ sel[1] = sel[2]
                    THEN Without(@, d) ELSE With(@, d, sel)]
    IN IF ~st1.dontUpdateSelectionOnBrush THEN updateSelection(database, st1, FALSE) ELSE st1

\* Pcoord.axisBrush() called by hand, with no event in progress
axisBrushManual(database, st) ==
    IF ~st.dontUpdateSelectionOnBrush THEN updateSelection(database, st, FALSE) ELSE st

\* d3's brush.move on the brush of axis d: the brush takes the selection sel
\* (null when sel is null or empty) and emits "start" and "brush", both
\* handled by axisBrush.
brushMove(database, st, d, sel) ==
    LET s == IF sel = NoSelection \/ sel[1] = sel[2] THEN NoSelection ELSE sel
    IN axisBrush(database, axisBrush(database, st, d, s), d, s)

\* The padding, in pixels, setSelection puts around the positions.
BrushPad == 5

YMin(S) == CHOOSE x \in S : \A y \in S : YLeq(x, y)
YMax(S) == CHOOSE x \in S : \A y \in S : YLeq(y, x)

\* A variant that looks at the first of the indices only.
positionOfFirst(database, st, d, S) ==
    LET i == CHOOSE x \in S : \A y \in S : x <= y
    IN <<getYPosition(database, st, d, database.data[i + 1]),
         getYPosition(database, st, d, database.data[i + 1])>>

\* d3.extent(selection, i => getYPosition(d, data[i])) for a non-empty set of
\* row indices (0-based)
positionExtent(database, st, d, S) ==
    LET ys == {getYPosition(database, st, d, database.data[i + 1]) : i \in S}
    IN <<YMin(ys), YMax(ys)>>

RECURSIVE moveBrushesTo(_, _, _, _)
moveBrushesTo(database, st, ranges, p) ==
    IF p > Len(st.axes) THEN st
    ELSE LET d == st.axes[p] IN
         moveBrushesTo(database,
             brushMove(database, st, d,
                       <<YPlus(ranges[d][1], -(BrushPad * PX)),
                         YPlus(ranges[d][2], BrushPad * PX)>>),
             ranges, p + 1)

\* Pcoord.prototype.setSelection(selection), selection a non-empty set of row indices
setSelection(database, st, S) ==
    LET ranges == [d \in Range(st.dimensions) |->
                       positionExtent(database, st, d, S)]
    IN axisBrushManual(database, moveBrushesTo(database, st, ranges, 1))

----------------------------------------------------------------------------
(* Pcoord / PcoordCanvas: updateSize                                       *)

\* The rounding of the double i / oldHeight * internalHeight, for every
\* coordinate <<i.v, i.e>> a brush extent of this model takes on a chart of
\* internal height oldHeight and every new internal height: the e of the
\* result, whose exact value is i.v * internalHeight / oldHeight.
\* (75 / 110 * 330 is 224.99999999999997, the double below 225.)
RescaleRounding ==
    << -15, 0, 110, 110>> :> 0 @@ << -5, -1, 110, 110>> :> -1 @@ <<0, 0, 110, 110>> :> 0 @@
    <<5, 1, 110, 110>> :> 1 @@ <<15, 0, 110, 110>> :> 0 @@ <<210, 0, 110, 110>> :> 0 @@
    <<220, -1, 110, 110>> :> -1 @@ <<225, 0, 110, 110>> :> 0 @@ <<230, 1, 110, 110>> :> 1 @@
    <<240, 0, 110, 110>> :> 0 @@ <<285, 0, 110, 110>> :> 0 @@ <<295, -1, 110, 110>> :> -1 @@
    <<305, -1, 110, 110>> :> -1 @@ <<315, 0, 110, 110>> :> 0 @@ <<325, -2, 110, 110>> :> -2 @@
    <<325, -1, 110, 110>> :> -1 @@ <<330, 0, 110, 110>> :> 0 @@ <<335, 1, 110, 110>> :> 1 @@
    <<345, 0, 110, 110>> :> 0 @@ << -15, 0, 110, 330>> :> 0 @@ << -5, -1, 110, 330>> :> 0 @@
    <<0, 0, 110, 330>> :> 0 @@ <<5, 1, 110, 330>> :> 0 @@ <<15, 0, 110, 330>> :> 0 @@
    <<210, 0, 110, 330>> :> 0 @@ <<220, -1, 110, 330>> :> 0 @@ <<225, 0, 110, 330>> :> -1 @@
    <<230, 1, 110, 330>> :> 1 @@ <<240, 0, 110, 330>> :> 0 @@ <<285, 0, 110, 330>> :> 0 @@
    <<295, -1, 110, 330>> :> 0 @@ <<305, -1, 110, 330>> :> 0 @@ <<315, 0, 110, 330>> :> 0 @@
    <<325, -2, 110, 330>> :> -1 @@ <<325, -1, 110, 330>> :> -1 @@ <<330, 0, 110, 330>> :> 0 @@
    <<335, 1, 110, 330>> :> 0 @@ <<345, 0, 110, 330>> :> 0 @@ << -45, 0, 330, 110>> :> 0 @@
    << -15, 0, 330, 110>> :> -1 @@ <<0, 0, 330, 110>> :> 0 @@ <<15, 0, 330, 110>> :> 1 @@
    <<45, 0, 330, 110>> :> 0 @@ <<630, 0, 330, 110>> :> 0 @@ <<660, 0, 330, 110>> :> -1 @@
    <<675, -1, 330, 110>> :> 0 @@ <<675, 0, 330, 110>> :> 0 @@ <<690, 0, 330, 110>> :> 1 @@
    <<690, 1, 330, 110>> :> 1 @@ <<720, 0, 330, 110>> :> 0 @@ <<855, 0, 330, 110>> :> 0 @@
    <<885, 0, 330, 110>> :> -1 @@ <<915, 0, 330, 110>> :> -1 @@ <<945, 0, 330, 110>> :> 0 @@
    <<975, -1, 330, 110>> :> -2 @@ <<975, 0, 330, 110>> :> -1 @@ <<990, 0, 330, 110>> :> 0 @@
    <<1005, 0, 330, 110>> :> 1 @@ <<1035, 0, 330, 110>> :> 0 @@ << -45, 0, 330, 330>> :> 0 @@
    << -15, 0, 330, 330>> :> 0 @@ <<0, 0, 330, 330>> :> 0 @@ <<15, 0, 330, 330>> :> 0 @@
    <<45, 0, 330, 330>> :> 0 @@ <<630, 0, 330, 330>> :> 0 @@ <<660, 0, 330, 330>> :> 0 @@
    <<675, -1, 330, 330>> :> -1 @@ <<675, 0, 330, 330>> :> -1 @@ <<690, 0, 330, 330>> :> 1 @@
    <<690, 1, 330, 330>> :> 1 @@ <<720, 0, 330, 330>> :> 0 @@ <<855, 0, 330, 330>> :> 0 @@
    <<885, 0, 330, 330>> :> 0 @@ <<915, 0, 330, 330>> :> 0 @@ <<945, 0, 330, 330>> :> 0 @@
    <<975, -1, 330, 330>> :> -1 @@ <<975, 0, 330, 330>> :> 0 @@ <<990, 0, 330, 330>> :> 0 @@
    <<1005, 0, 330, 330>> :> 0 @@ <<1035, 0, 330, 330>> :> 0

\* i / oldHeight * internalHeight in exact arithmetic
rescaleExactly(i, oldHeight, newHeight) ==
    [v |-> (i.v * newHeight) \div oldHeight, e |-> 0]

\* i / oldHeight * internalHeight
rescale(i, oldHeight, newHeight) ==
    [v |-> (i.v * newHeight) \div oldHeight,
     e |-> RescaleRounding[<<i.v, i.e, oldHeight, newHeight>>]]

RECURSIVE rescaleBrushes(_, _, _, _)
rescaleBrushes(database, st, oldHeight, p) ==
    IF p > Len(st.axes) THEN st
    ELSE LET d == st.axes[p]
             sel == IF d \notin DOMAIN st.brushExtents THEN NoSelection
                    ELSE <<rescale(st.brushExtents[d][1], oldHeight, st.internalHeight),
                           rescale(st.brushExtents[d][2], oldHeight, st.internalHeight)>>
         IN rescaleBrushes(database, brushMove(database, st, d, sel), oldHeight, p + 1)

\* A variant that rescales the brushes without suppressing updateSelection.
pcoordUpdateSizeUnsuppressed(database, st, w, h) ==
    LET oldHeight == st.internalHeight
        st1 == [st EXCEPT !.internalWidth = w,
                          !.internalHeight = h,
                          !.y = [d \in DOMAIN st.y |->
                                    [st.y[d] EXCEPT !.range0 = yRangeFor(database, d, h)]]]
    IN rescaleBrushes(database, redrawPaths(st1), oldHeight, 1)

\* Pcoord.prototype.updateSize, for a parent whose internal size is now w x h pixels
pcoordUpdateSize(database, st, w, h) ==
    LET oldHeight == st.internalHeight
        st1 == [st EXCEPT !.internalWidth = w,
                          !.internalHeight = h,
                          !.y = [d \in DOMAIN st.y |->
                                    [st.y[d] EXCEPT !.range0 = yRangeFor(database, d, h)]]]
        st2 == redrawPaths(st1)
        st3 == [st2 EXCEPT !.dontUpdateSelectionOnBrush = TRUE]
        st4 == rescaleBrushes(database, st3, oldHeight, 1)
    IN [st4 EXCEPT !.dontUpdateSelectionOnBrush = FALSE]

\* PcoordCanvas.prototype.updateSize: the super method, then the canvases are
\* resized (which clears them) and the paths redrawn
updateSize(database, st, w, h) ==
    redrawPaths([pcoordUpdateSize(database, st, w, h) EXCEPT !.painted = <<>>])

----------------------------------------------------------------------------
(* Pcoord: axis dragging                                                   *)

\* Array.prototype.sort with the comparator getXPosition(a) - getXPosition(b):
\* a stable sort, here by insertion
RECURSIVE insertByX(_, _, _)
insertByX(st, sorted, d) ==
    IF sorted = <<>> THEN <<d>>
    ELSE LET b == sorted[Len(sorted)] IN
         IF getXPosition(st, b) - getXPosition(st, d) > 0
         THEN Append(insertByX(st, SubSeq(sorted, 1, Len(sorted) - 1), d), b)
         ELSE Append(sorted, d)

RECURSIVE sortByX(_, _, _)
sortByX(st, dims, p) ==
    IF p = 0 THEN <<>>
    ELSE insertByX(st, sortByX(st, dims, p - 1), dims[p])

\* Pcoord.axisDragStart(d)
axisDragStart(st, d) == [st EXCEPT !.dragging = With(@, d, xScale(st, d))]

\* Pcoord.axisDrag(d) for a drag event whose x is x
axisDrag(st, d, x) ==
    LET st1 == redrawPaths([st EXCEPT !.dragging =
                                With(@, d, Min(st.internalWidth, Max(0, x)))])
        oldDimensions == st1.dimensions
        st2 == [st1 EXCEPT !.dimensions = sortByX(st1, oldDimensions, Len(oldDimensions))]
        st3 == IF ~arraysEqual(oldDimensions, st2.dimensions)
               THEN dispatch(st2, "axisorderchange", st2.dimensions)
               ELSE st2
    IN [st3 EXCEPT !.xDomain = st3.dimensions]

\* Pcoord.axisDragEnd(d)
axisDragEnd(st, d) == redrawPaths([st EXCEPT !.dragging = Without(@, d)])

----------------------------------------------------------------------------
(* PcoordCanvas: the draw interval                                         *)

\* A variant that does not shift the index by one.
indexToColorUnshifted(i) ==
    IF i > 256 * 256 * 256 THEN <<255, 255, 255>>
    ELSE LET b == i \div (256 * 256)
             g == (i - b * 256 * 256) \div 256
             r == i - b * 256 * 256 - g * 256
         IN <<r, g, b>>

\* indexToColor(i): the numbers r, g, b of the text 'rgb(r,g,b)' it returns
indexToColor(i) ==
    IF i > 256 * 256 * 256 THEN <<255, 255, 255>>
    ELSE LET j == i + 1
             b == j \div (256 * 256)
             g == (j - b * 256 * 256) \div 256
             r == j - b * 256 * 256 - g * 256
         IN <<r, g, b>>

\* colorToIndex(rgb)
colorToIndex(rgb) == (rgb[1] + rgb[2] * 256 + rgb[3] * 256 * 256) - 1

\* String(i) for an integer i, as the code units of its decimal digits.
RECURSIVE digitsOf(_)
digitsOf(n) == IF n < 10 THEN <<48 + n>> ELSE Append(digitsOf(n \div 10), 48 + (n % 10))

toText(i) == IF i < 0 THEN <<45>> \o digitsOf(-i) ELSE digitsOf(i)

\* x < y for two strings, code unit by code unit, as the default comparison
\* of Array.prototype.sort compares them.
RECURSIVE textBefore(_, _)
textBefore(x, y) ==
    IF y = <<>> THEN FALSE
    ELSE IF x = <<>> THEN TRUE
    ELSE IF x[1] # y[1] THEN x[1] < y[1]
    ELSE textBefore(Tail(x), Tail(y))

\* indices.sort(): with no comparator the elements are ordered as strings.
RECURSIVE insertAsText(_, _)
insertAsText(sorted, k) ==
    IF sorted = <<>> THEN <<k>>
    ELSE IF textBefore(toText(k), toText(sorted[Len(sorted)]))
         THEN Append(insertAsText(SubSeq(sorted, 1, Len(sorted) - 1), k), sorted[Len(sorted)])
         ELSE Append(sorted, k)

RECURSIVE sortAsText(_, _)
sortAsText(indices, p) ==
    IF p = 0 THEN <<>> ELSE insertAsText(sortAsText(indices, p - 1), indices[p])

\* The number of equal indices getIndexAtPoint asks for.
MatchCount == 5

\* The loop of getIndexAtPoint over indices from position p on.
RECURSIVE countFrom(_, _, _, _)
countFrom(indices, p, count, counting) ==
    IF p > Len(indices) THEN -1
    ELSE IF counting # indices[p] THEN countFrom(indices, p + 1, 1, indices[p])
    ELSE IF count + 1 = MatchCount THEN counting
    ELSE countFrom(indices, p + 1, count + 1, counting)

\* The index of each pixel of the image data.
decoded(pixels) == [p \in 1..Len(pixels) |-> colorToIndex(pixels[p])]

\* A variant that counts the indices in the order of the pixels.
getIndexAtPointUnsorted(pixels) == countFrom(decoded(pixels), 1, 0, -1)

\* getIndexAtPoint(x, y, canvas), for the red, green and blue of the pixels
\* that getImageData(x-1, y-1, 3, 3) returns
getIndexAtPoint(pixels) ==
    countFrom(sortAsText(decoded(pixels), Len(pixels)), 1, 0, -1)

\* The number of times one tick of the interval tries drawIterator.next().
BatchSize == 25

\* A variant that leaves the indicator as it is when the iterator is done.
iteratorStepLeavingIndicator(st) ==
    IF ~st.drawIterator.live THEN st
    ELSE LET it == st.drawIterator
             st1 == IF it.started THEN st ELSE [st EXCEPT !.loading = TRUE]
         IN IF it.i < Len(it.queue)
            THEN [st1 EXCEPT !.painted = Append(@, [row |-> it.queue[it.i + 1],
                                                     color |-> indexToColor(it.i)]),
                             !.drawIterator = [it EXCEPT !.i = it.i + 1, !.started = TRUE]]
            ELSE [st1 EXCEPT !.drawIterator = NoIterator]

\* One pass of the interval's loop body: drawIterator.next(), and the end of
\* the pass when it reports done.
iteratorStep(st) ==
    IF ~st.drawIterator.live THEN st
    ELSE LET it == st.drawIterator
             st1 == IF it.started THEN st ELSE [st EXCEPT !.loading = TRUE]
         IN IF it.i < Len(it.queue)
            THEN [st1 EXCEPT !.painted = Append(@, [row |-> it.queue[it.i + 1],
                                                     color |-> indexToColor(it.i)]),
                             !.drawIterator = [it EXCEPT !.i = it.i + 1, !.started = TRUE]]
            ELSE [st1 EXCEPT !.drawIterator = NoIterator, !.loading = FALSE]

\* The loop of the callback with k passes to go (each pass is applied to the
\* component as the pass before left it).
RECURSIVE intervalLoop(_, _)
intervalLoop(st, k) ==
    IF k = 0 THEN st
    ELSE CHOOSE after \in {intervalLoop(next, k - 1) : next \in {iteratorStep(st)}} : TRUE

\* A variant that tries drawIterator.next() once for each tick.
intervalTickOnce(st) == intervalLoop(st, 1)

\* The callback of setInterval(..., 16)
intervalTick(st) == intervalLoop(st, BatchSize)

----------------------------------------------------------------------------
(* The Pcoord specification: one PcoordCanvas over a loaded database       *)

EmptyMap == [x \in {} |-> 0]

\* The table behind the chart: a numeric column with a value a quarter of
\* the way up its domain, a numeric column with a NaN cell, and a string
\* column with a repeated value.
PcoordDimensions == <<"a", "b", "c">>
PcoordData ==
    << [a |-> Str("0"), b |-> Str("3"),   c |-> Str("x")],
       [a |-> Str("1"), b |-> Str("NaN"), c |-> Str("y")],
       [a |-> Str("4"), b |-> Str("2"),   c |-> Str("x")] >>

\* The internal sizes <<width, height>> (pixels) the parent takes.
Sizes == {<<400, 110>>, <<400, 330>>}

\* The selections a user's brush gesture reports on a chart of internal
\* height h: null, or lo <= hi among the top of the chart, three quarters of
\* the way down the numeric range (where row 1 lies on a) and the bottom of
\* the chart.
BrushCoords(h) == {Y(0), Y((15 * h * PX) \div 22), Y(h * PX)}
BrushInputs(h) ==
    {NoSelection} \cup {e \in BrushCoords(h) \X BrushCoords(h) : YLeq(e[1], e[2])}

\* The arguments of setSelection: the non-empty sets of row indices.
SelectionInputs(database) == SUBSET (0..(Len(database.data) - 1)) \ {{}}

\* The x coordinates a drag event reports.
PointerXs == {-20, 150, 200, 250, 300, 350, 420}

\* The smaller inputs of the specification of the whole component.
SomeBrushInputs(h) ==
    {NoSelection, <<Y(0), Y((15 * h * PX) \div 22)>>, <<Y(h * PX), Y(h * PX)>>}
SomeSelectionInputs == {{0}, {0, 2}}
SomePointerXs == {250}

\* new PcoordCanvas(parent, database) in a parent of internal size w x h
newPcoordCanvas(database, w, h) ==
    LET dims == database.dimensions IN
    updateSize(database,
        [dimensions |-> dims,
         axes |-> dims,
         xDomain |-> dims,
         internalWidth |-> w,
         internalHeight |-> h,
         y |-> [d \in Range(dims) |-> yScaleFor(database, d, yRangeFor(database, d, h))],
         dragging |-> EmptyMap,
         brushExtents |-> EmptyMap,
         dontUpdateSelectionOnBrush |-> FALSE,
         selection |-> [i \in 1..Len(database.data) |-> i - 1],
         drawIterator |-> NoIterator,
         loading |-> FALSE,
         painted |-> <<>>,
         events |-> <<>>],
        w, h)

NoComponent == [dimensions |-> <<>>]

\* The history of an axis-drag gesture: the dragged dimension, the order of the
\* dimensions when it started and before its last movement, the last (clamped)
\* pointer position, the direction of the movements so far ("none", "up",
\* "down" or "mixed"), and the axisorderchange events it has dispatched
\* (their number, counted up to MaxCounted, and the payload of the last),
\* and the number of its movements (counted up to MaxCounted).
NoGesture ==
    [phase |-> "none", dim |-> "", order0 |-> <<>>, before |-> <<>>, lastX |-> 0,
     dir |-> "none", moves |-> 0, count |-> 0, payload |-> <<>>]

\* The events of one type a handler has dispatched.
eventsOf(st, type) == SelectSeq(st.events, LAMBDA e : e.type = type)
NoQuery == EmptyMap

\* The handler that ran last: its name, and for setSelection its argument.
Ran(op) == [op |-> op, S |-> {}]
RanSetSelection(S) == [op |-> "setSelection", S |-> S]

Init ==
    /\ db = Database(PcoordData, PcoordDimensions)
    /\ simQuery = NoQuery
    /\ simThreshold = 0
    /\ similar = <<>>
    /\ simCalled = FALSE
    /\ \E size \in Sizes : pcoord = newPcoordCanvas(db, size[1], size[2])
    /\ gesture = NoGesture
    /\ last = Ran("new")
    /\ loader = NoLoader
    /\ csv = NoCsv
    /\ codec = NoCodec
    /\ pass = NoPass
    /\ pick = NoPick

\* Every handler starts with an empty record of the events it dispatched.
Entering == [pcoord EXCEPT !.events = <<>>]

Displayed == Range(pcoord.dimensions)

\* A "start" or "brush" event of a user's brush gesture on axis d
BrushEvent(d, sel) ==
    /\ DOMAIN pcoord.dragging = {}
    /\ pcoord' = axisBrush(db, Entering, d, sel)
    /\ last' = Ran("axisBrush")
    /\ UNCHANGED <<asideVars, db, simVars, gesture>>

SetSelection(S) ==
    /\ pcoord' = setSelection(db, Entering, S)
    /\ last' = RanSetSelection(S)
    /\ UNCHANGED <<asideVars, db, simVars, gesture>>

UpdateSize(size) ==
    /\ pcoord' = updateSize(db, Entering, size[1], size[2])
    /\ last' = Ran("updateSize")
    /\ UNCHANGED <<asideVars, db, simVars, gesture>>

AxisDragStart(d) ==
    /\ DOMAIN pcoord.dragging = {}
    /\ pcoord' = axisDragStart(Entering, d)
    /\ last' = Ran("axisDragStart")
    /\ UNCHANGED <<asideVars, db, simVars, gesture>>

AxisDrag(d, x) ==
    /\ d \in DOMAIN pcoord.dragging
    /\ pcoord' = axisDrag(Entering, d, x)
    /\ last' = Ran("axisDrag")
    /\ UNCHANGED <<asideVars, db, simVars, gesture>>

AxisDragEnd(d) ==
    /\ d \in DOMAIN pcoord.dragging
    /\ pcoord' = axisDragEnd(Entering, d)
    /\ last' = Ran("axisDragEnd")
    /\ UNCHANGED <<asideVars, db, simVars, gesture>>

Tick ==
    /\ pcoord' = intervalTick(Entering)
    /\ last' = Ran("interval")
    /\ UNCHANGED <<asideVars, db, simVars, gesture>>

\* The whole component: brushing, setSelection, resizing, axis dragging, drawing.
Next ==
    \/ \E d \in Displayed : \E sel \in SomeBrushInputs(pcoord.internalHeight) : BrushEvent(d, sel)
    \/ \E S \in SomeSelectionInputs : SetSelection(S)
    \/ \E size \in Sizes : UpdateSize(size)
    \/ \E d \in Displayed : AxisDragStart(d)
    \/ \E d \in Displayed : \E x \in SomePointerXs : AxisDrag(d, x)
    \/ \E d \in Displayed : AxisDragEnd(d)
    \/ Tick

Spec == Init /\ [][Next]_vars

\* Counting of events stops at this number.
MaxCounted == 3

TrackedDragStart(d) ==
    /\ DOMAIN pcoord.dragging = {}
    /\ pcoord' = axisDragStart(Entering, d)
    /\ last' = Ran("axisDragStart")
    /\ gesture' = [phase |-> "dragging", dim |-> d, order0 |-> pcoord.dimensions,
                   before |-> pcoord.dimensions, lastX |-> xScale(pcoord, d),
                   dir |-> "none", moves |-> 0, count |-> 0, payload |-> <<>>]
    /\ UNCHANGED <<asideVars, db, simVars>>

TrackedDrag(d, x) ==
    /\ d \in DOMAIN pcoord.dragging
    /\ pcoord' = axisDrag(Entering, d, x)
    /\ last' = Ran("axisDrag")
    /\ LET cx == pcoord'.dragging[d]
           fired == eventsOf(pcoord', "axisorderchange")
       IN gesture' = [gesture EXCEPT
              !.before = pcoord.dimensions,
              !.lastX = cx,
              !.dir = IF cx > gesture.lastX
                      THEN (IF @ \in {"none", "up"} THEN "up" ELSE "mixed")
                      ELSE IF cx < gesture.lastX
                      THEN (IF @ \in {"none", "down"} THEN "down" ELSE "mixed")
                      ELSE @,
              !.moves = Min(@ + 1, MaxCounted),
              !.count = Min(@ + Len(fired), MaxCounted),
              !.payload = IF fired = <<>> THEN @ ELSE fired[Len(fired)].payload]
    /\ UNCHANGED <<asideVars, db, simVars>>

TrackedDragEnd(d) ==
    /\ d \in DOMAIN pcoord.dragging
    /\ pcoord' = axisDragEnd(Entering, d)
    /\ last' = Ran("axisDragEnd")
    /\ gesture' = [gesture EXCEPT !.phase = "released"]
    /\ UNCHANGED <<asideVars, db, simVars>>

\* Axis dragging alone, with the history of the gesture recorded.
NextDrag ==
    \/ \E d \in Displayed : TrackedDragStart(d)
    \/ \E d \in Displayed : \E x \in PointerXs : TrackedDrag(d, x)
    \/ \E d \in Displayed : TrackedDragEnd(d)
    \/ Tick

SpecDrag == Init /\ [][NextDrag]_vars

\* The selection engine alone, with every brush input and every setSelection
\* argument of the model.
NextBrush ==
    \/ \E d \in Displayed : \E sel \in BrushInputs(pcoord.internalHeight) : BrushEvent(d, sel)
    \/ \E S \in SelectionInputs(db) : SetSelection(S)
    \/ \E size \in Sizes : UpdateSize(size)
    \/ Tick

SpecBrush == Init /\ [][NextBrush]_vars

----------------------------------------------------------------------------
(* The getSimilar specification: a loaded database and one query           *)

\* The most data rows of a database of this specification.
MaxSimRows == 2
\* The largest threshold, in units of 1/NormScale.
MaxThreshold == 2

SimDimensions == <<"a", "c">>
\* The cells of column a (numbers, NaN, text, missing) and of column c.
SimCellsA == {Undef, Str("0"), Str("2"), Str("NaN"), Str("x")}
SimCellsC == {Undef, Str("x"), Str("y")}
\* Tables in which column a has two numbers and, in a third row, NaN.
SimTablesWithNaN ==
    {<<[a |-> Str("0"), c |-> Str("x")], [a |-> Str("2"), c |-> Str("x")],
       [a |-> Str("NaN"), c |-> cell]>> : cell \in SimCellsC}
SimTables ==
    UNION {[1..n -> [a : SimCellsA, c : SimCellsC]] : n \in 1..MaxSimRows}
        \cup SimTablesWithNaN

\* The queries: partial rows, whose values may be strings or numbers.
SimQueries ==
    [a : {Undef, Str("0"), Str("1"), Str("NaN"), Num(2), NaNNum},
     c : {Undef, Str("x"), Str("y")}]

InitSimilar ==
    /\ \E rows \in SimTables : db = Database(rows, SimDimensions)
    /\ simQuery = NoQuery
    /\ simThreshold = 0
    /\ similar = <<>>
    /\ simCalled = FALSE
    /\ pcoord = NoComponent
    /\ gesture = NoGesture
    /\ last = Ran("new")
    /\ loader = NoLoader
    /\ csv = NoCsv
    /\ codec = NoCodec
    /\ pass = NoPass
    /\ pick = NoPick

\* getSimilar reads the database and changes nothing: one call stands for all.
GetSimilar(query, threshold) ==
    /\ ~simCalled
    /\ simCalled' = TRUE
    /\ simQuery' = query
    /\ simThreshold' = threshold
    /\ similar' = getSimilar(db, query, threshold)
    /\ last' = Ran("getSimilar")
    /\ UNCHANGED <<asideVars, db, pcoord, gesture>>

NextSimilar ==
    \E query \in SimQueries \cup Range(db.data) :
        \E threshold \in 0..MaxThreshold : GetSimilar(query, threshold)

SpecSimilar == InitSimilar /\ [][NextSimilar]_vars

----------------------------------------------------------------------------
(* Database: the constructor's requests for data.csv and axis_order.csv    *)

\* data[i][j] of a parsed line: undefined past the end of the line
cellAt(line, j) == IF j \in 1..Len(line) THEN line[j] ELSE Undef

\* A variant that does not look for missing cells in the header line.
checkErrorsHeaderUnchecked(data) ==
    IF Len(data) < 2
    THEN Str("The first and second lines in the file are required.")
    ELSE IF Len(data[1]) < 2
    THEN Str("The dataset must include at least two dimensions")
    ELSE IF \E i \in 1..Len(data) : Len(data[i]) # Len(data[1])
    THEN Str("Each line must have an equal number of comma separated values (columns).")
    ELSE Undef

\* checkErrors(data): an error message, or undefined when data is accepted
checkErrors(data) ==
    IF Len(data) < 2
    THEN Str("The first and second lines in the file are required.")
    ELSE IF Len(data[1]) < 2
    THEN Str("The dataset must include at least two dimensions")
    ELSE IF \E i \in 1..Len(data[1]) : data[1][i] = Undef
    THEN Str("Empty values may not occur in the header (first line).")
    ELSE IF \E i \in 1..Len(data) : Len(data[i]) # Len(data[1])
    THEN Str("Each line must have an equal number of comma separated values (columns).")
    ELSE Undef

\* dimensions.includes(cell)
includesDimension(dimensions, cell) == cell.k = "str" /\ cell.s \in Range(dimensions)

\* A variant that accepts any name in the header.
checkAxisDataErrorsAnyName(data, dimensions) ==
    IF Len(data) < 2
    THEN Str("The first and second lines in the file are required.")
    ELSE IF \E i \in 1..Len(data) : Len(data[i]) # Len(data[1])
    THEN Str("Each line must have an equal number of comma separated values (columns).")
    ELSE IF \E i \in 1..Len(data) : cellAt(data[i], 1) = Undef
    THEN Str("Category cannot be undefined.")
    ELSE IF \E i \in 1..Len(data) : cellAt(data[i], 2) = Undef
    THEN Str("Value cannot be undefined.")
    ELSE IF \E i \in 2..Len(data) : \E j \in 3..Len(data[i]) :
                isNaN(data[i][j]) /\ data[i][j] # Undef
    THEN Str("Values for dimensions cannot be NaN.")
    ELSE Undef

\* checkAxisDataErrors(data, dimensions)
checkAxisDataErrors(data, dimensions) ==
    IF Len(data) < 2
    THEN Str("The first and second lines in the file are required.")
    ELSE IF \E i \in 1..Len(data) : Len(data[i]) # Len(data[1])
    THEN Str("Each line must have an equal number of comma separated values (columns).")
    ELSE IF \E i \in 3..Len(data[1]) : ~includesDimension(dimensions, data[1][i])
    THEN Str("Dimension in axis order file is not valid")
    ELSE IF \E i \in 1..Len(data) :
                /\ cellAt(data[i], 1) = Undef
                /\ \A h \in 1..(i - 1) :
                       cellAt(data[h], 1) # Undef /\ cellAt(data[h], 2) # Undef
    THEN Str("Category cannot be undefined.")
    ELSE IF \E i \in 1..Len(data) : cellAt(data[i], 2) = Undef
    THEN Str("Value cannot be undefined.")
    ELSE IF \E i \in 2..Len(data) : \E j \in 3..Len(data[i]) :
                isNaN(data[i][j]) /\ data[i][j] # Undef
    THEN Str("Values for dimensions cannot be NaN.")
    ELSE Undef

\* The comparator parseAxisOrderData sorts a row's priorities with.
priorityCompare(a, b) ==
    IF a = Undef THEN 1
    ELSE IF b = Undef THEN -1
    ELSE ToNumber(a) - ToNumber(b)

\* Array.prototype.sort under priorityCompare, over the priorities keys of
\* one row: the column indices (0-based) in an order the sort may leave
\* them in.  Two columns the comparator orders are left in that order, two
\* it finds equal are left in their original order, and two it contradicts
\* itself on (each is greater than the other: both priorities undefined)
\* are left in whichever order the engine's algorithm produces.
sortOutcomes(keys) ==
    {p \in [1..Len(keys) -> 0..(Len(keys) - 1)] :
        /\ \A j, k \in 1..Len(keys) : j # k => p[j] # p[k]
        /\ \A j, k \in 1..Len(keys) : j < k =>
               LET x == keys[p[j] + 1]
                   y == keys[p[k] + 1]
               IN \/ priorityCompare(x, y) < 0
                  \/ priorityCompare(x, y) = 0 /\ p[j] < p[k]
                  \/ priorityCompare(x, y) > 0 /\ priorityCompare(y, x) > 0}

\* data_arr[0].slice(2), and row.slice(2) padded to its length
axisNames(data_arr) == [i \in 1..(Len(data_arr[1]) - 2) |-> data_arr[1][i + 2]]
axisPriorities(data_arr, row) ==
    [i \in 1..(Len(data_arr[1]) - 2) |-> cellAt(row, i + 2)]

\* The ordering of one row, given the order sorted the sort left the
\* columns in.
axisOrdering(data_arr, sorted) ==
    [j \in 1..Len(sorted) |-> axisNames(data_arr)[sorted[j] + 1]]

\* data[category] after the rows before row i have been added
categoryEntries(data, category) ==
    IF category \in DOMAIN data THEN data[category] ELSE <<>>

RECURSIVE axisOrderFrom(_, _, _, _)
axisOrderFrom(data_arr, sorts, i, data) ==
    IF i > Len(data_arr) THEN data
    ELSE LET row == data_arr[i]
             category == cellAt(row, 1)
             entry == [name |-> cellAt(row, 2),
                       order |-> axisOrdering(data_arr, sorts[i - 1])]
             others == [c \in DOMAIN data \ {category} |-> data[c]]
         IN axisOrderFrom(data_arr, sorts, i + 1,
                others @@ (category :> Append(categoryEntries(data, category), entry)))

\* parseAxisOrderData(data_arr), where sorts[r] is what the sort made of the
\* r-th data row
parseAxisOrderData(data_arr, sorts) == axisOrderFrom(data_arr, sorts, 2, EmptyMap)

\* The choices of the sort over all the data rows of data_arr.
axisSorts(data_arr) ==
    {sorts \in [1..(Len(data_arr) - 1) -> UNION {sortOutcomes(axisPriorities(data_arr, data_arr[r + 1])) : r \in 1..(Len(data_arr) - 1)}] :
        \A r \in 1..(Len(data_arr) - 1) :
            sorts[r] \in sortOutcomes(axisPriorities(data_arr, data_arr[r + 1]))}

\* What a request made by getAndParseCSV came to: not sent yet, in flight,
\* failed (a status other than 200), answered with a text parseCSV turned
\* into a grid, or answered with a text parseCSV threw on.
NotSent == [status |-> "none", grid |-> <<>>]
InFlight == [status |-> "pending", grid |-> <<>>]
RequestFailed == [status |-> "failed", grid |-> <<>>]
ParseThrew == [status |-> "threw", grid |-> <<>>]
Parsed(grid) == [status |-> "parsed", grid |-> grid]

\* The Database as its constructor leaves it before any response.
newDatabase ==
    [loaded |-> FALSE,
     error |-> Undef,
     data |-> <<>>,
     dimensions |-> <<>>,
     dimensionTypes |-> EmptyMap,
     dimensionDomains |-> EmptyMap,
     hasAxisOrdering |-> FALSE,
     axisOrderData |-> EmptyMap]

\* A call of callback or of errorCallback: its arguments, and what the
\* Database and the axis_order.csv request were at that moment.
invoke(st, fn, args) ==
    [st EXCEPT !.loader.calls =
        Append(@, [fn |-> fn, args |-> args, loaded |-> st.db.loaded,
                   axisCsv |-> st.loader.axisCsv.status])]

\* The header line as dimension names, and a line as an object keyed by
\* them (a name that occurs twice keeps the later column).
headerNames(line) == [i \in 1..Len(line) |-> line[i].s]
rowObject(dims, line) ==
    [p \in Range(dims) |->
        line[CHOOSE i \in 1..Len(dims) :
                 dims[i] = p /\ \A j \in (i + 1)..Len(dims) : dims[j] # p]]

\* The callback of the data.csv request
dataLoaded(st, data_arr) ==
    LET error == checkErrors(data_arr) IN
    IF error # Undef
    THEN invoke([st EXCEPT !.db.error = error], "errorCallback", <<>>)
    ELSE LET dims == headerNames(data_arr[1])
             rows == [i \in 1..(Len(data_arr) - 1) |-> rowObject(dims, data_arr[i + 1])]
             typed == Database(rows, dims)
         IN [st EXCEPT !.db.error = error,
                       !.db.dimensions = dims,
                       !.db.data = rows,
                       !.db.dimensionTypes = typed.dimensionTypes,
                       !.db.dimensionDomains = typed.dimensionDomains,
                       !.loader.axisCsv = InFlight]

\* The error callback of the data.csv request
dataFailed(st) == invoke(st, "errorCallback", <<Str("Error loading data.csv!")>>)

\* The callback of the axis_order.csv request
axisLoaded(st, axis_data_arr, sorts) ==
    LET error == checkAxisDataErrors(axis_data_arr, st.db.dimensions)
        ordered == IF error = Undef
                   THEN [st EXCEPT !.db.hasAxisOrdering = TRUE,
                                   !.db.axisOrderData = parseAxisOrderData(axis_data_arr, sorts)]
                   ELSE st
    IN invoke([ordered EXCEPT !.db.loaded = TRUE], "callback", <<"self">>)

\* A variant that calls back before it marks the Database as loaded.
axisFailedCallbackFirst(st) ==
    [invoke(st, "callback", <<"self">>) EXCEPT !.db.loaded = TRUE]

\* The error callback of the axis_order.csv request
axisFailed(st) == invoke([st EXCEPT !.db.loaded = TRUE], "callback", <<"self">>)

----------------------------------------------------------------------------
(* The loads explored: what the two requests may be answered with          *)

MaxColumns == 3
MaxShapeRows == 2
MaxValueRows == 3
MaxAxisRows == 2

SeqsBetween(S, lo, hi) == UNION {[1..n -> S] : n \in lo..hi}

\* Grids of every shape: the empty grid, and a header line of up to
\* MaxColumns cells, some of them missing, followed by lines of any length
\* and by blank lines (a grid of parseCSV never ends in a blank line after
\* another line).
ShapeHeaders == SeqsBetween({Undef, Str("a"), Str("b")}, 1, MaxColumns)
ShapeLines == {[i \in 1..n |-> Str("1")] : n \in 1..MaxColumns} \cup {<<Undef>>}
ShapeGrids ==
    {<<>>} \cup
    {g \in {<<h>> \o body : h \in ShapeHeaders,
                            body \in SeqsBetween(ShapeLines, 0, MaxShapeRows)} :
        Len(g) > 1 => g[Len(g)] # <<Undef>>}

\* Well-formed tables with header a,b: column a holds any cells, column b
\* holds 2 and then 4.
ValueCells == {Undef, Str(""), Str("1"), Str("3"), Str("NaN"), Str("x")}
ValueGrids ==
    {<< <<Str("a"), Str("b")>> >> \o
        [i \in 1..Len(col) |-> <<col[i], IF i = 1 THEN Str("2") ELSE Str("4")>>] :
        col \in SeqsBetween(ValueCells, 1, MaxValueRows)}

DataGrids == ShapeGrids \cup ValueGrids

\* Axis-order grids: the empty grid, and a header naming dimensions (z is in
\* no dataset) followed by up to MaxAxisRows rows.  Under the header a,b the
\* first row holds any priorities - missing, no number, short by one cell -
\* or no category; every other row holds a priority of 1 per dimension, in
\* category k or m.
AxisNames == {<<Str("a")>>, <<Str("a"), Str("b")>>, <<Str("a"), Str("z")>>}
AxisCells == {Undef, Str("1"), Str("2"), Str("x")}
PlainAxisRow(category, n) == <<Str(category), Str("v")>> \o [i \in 1..n |-> Str("1")]
AxisRows(n) ==
    {<<Str("k"), Str("v")>> \o ps : ps \in SeqsBetween(AxisCells, n - 1, n)}
        \cup {<<Undef, Str("v")>> \o [i \in 1..n |-> Str("1")]}
AxisFirstRows(names) ==
    IF names = <<Str("a"), Str("b")>> THEN AxisRows(2)
    ELSE {PlainAxisRow("k", Len(names))}
AxisHeader(names) == <<Str("category"), Str("value")>> \o names
AxisGrids ==
    {<<>>} \cup
    UNION {{<<AxisHeader(names)>>} \cup
           {<<AxisHeader(names), first>> \o more :
               first \in AxisFirstRows(names),
               more \in SeqsBetween({PlainAxisRow("k", Len(names)),
                                     PlainAxisRow("m", Len(names))},
                                    0, MaxAxisRows - 1)} :
           names \in AxisNames}

Loading == [db |-> db, loader |-> loader]

InitLoad ==
    /\ db = newDatabase
    /\ loader = [dataCsv |-> InFlight, axisCsv |-> NotSent, calls |-> <<>>]
    /\ simQuery = NoQuery
    /\ simThreshold = 0
    /\ similar = <<>>
    /\ simCalled = FALSE
    /\ pcoord = NoComponent
    /\ gesture = NoGesture
    /\ last = Ran("new")
    /\ csv = NoCsv
    /\ codec = NoCodec
    /\ pass = NoPass
    /\ pick = NoPick

LoadStep(st) ==
    /\ db' = st.db
    /\ loader' = st.loader
    /\ UNCHANGED <<simVars, pcoord, gesture, last, csv, codec, pass, pick>>

\* data.csv is answered with a text parseCSV makes a grid of
DataCsvLoaded(grid) ==
    /\ loader.dataCsv = InFlight
    /\ LoadStep(dataLoaded([Loading EXCEPT !.loader.dataCsv = Parsed(grid)], grid))

\* data.csv is answered with a text parseCSV throws on: the handler ends there
DataCsvThrew ==
    /\ loader.dataCsv = InFlight
    /\ LoadStep([Loading EXCEPT !.loader.dataCsv = ParseThrew])

\* the request for data.csv fails
DataCsvFailed ==
    /\ loader.dataCsv = InFlight
    /\ LoadStep(dataFailed([Loading EXCEPT !.loader.dataCsv = RequestFailed]))

AxisCsvLoaded(grid) ==
    /\ loader.axisCsv = InFlight
    /\ \E sorts \in IF checkAxisDataErrors(grid, db.dimensions) = Undef
                    THEN axisSorts(grid) ELSE {<<>>} :
           LoadStep(axisLoaded([Loading EXCEPT !.loader.axisCsv = Parsed(grid)], grid, sorts))

AxisCsvThrew ==
    /\ loader.axisCsv = InFlight
    /\ LoadStep([Loading EXCEPT !.loader.axisCsv = ParseThrew])

AxisCsvFailed ==
    /\ loader.axisCsv = InFlight
    /\ LoadStep(axisFailed([Loading EXCEPT !.loader.axisCsv = RequestFailed]))

NextLoad ==
    \/ loader.dataCsv = InFlight /\ \E grid \in DataGrids : DataCsvLoaded(grid)
    \/ DataCsvThrew
    \/ DataCsvFailed
    \/ loader.axisCsv = InFlight /\ \E grid \in AxisGrids : AxisCsvLoaded(grid)
    \/ AxisCsvThrew
    \/ AxisCsvFailed

SpecLoad == InitLoad /\ [][NextLoad]_vars

----------------------------------------------------------------------------
(* parseCSV: a text is a sequence of characters                            *)

\* csvText.charAt(p - 1): the empty string past either end
charAt(text, p) == IF p \in 1..Len(text) THEN text[p] ELSE ""

NoMatch == [matched |-> FALSE, delimiter |-> "", length |-> 0]
Delimiter(d, n) == [matched |-> TRUE, delimiter |-> d, length |-> n]

\* The first group of csvRegex, (\,|\r?\n|\r|^), tried at position s: its
\* alternatives in their order.
delimiterAt(text, s) ==
    IF charAt(text, s) = "," THEN Delimiter(",", 1)
    ELSE IF charAt(text, s) = "\r" /\ charAt(text, s + 1) = "\n" THEN Delimiter("\r\n", 2)
    ELSE IF charAt(text, s) = "\n" THEN Delimiter("\n", 1)
    ELSE IF charAt(text, s) = "\r" THEN Delimiter("\r", 1)
    ELSE IF s = 1 THEN Delimiter("", 0)
    ELSE NoMatch

\* Where csvRegex.exec finds its next match: the first position from
\* lastIndex on at which the first group matches (the second group matches
\* anywhere), 0 when there is none.
matchStart(text, from) ==
    LET starts == {s \in from..(Len(text) + 1) : delimiterAt(text, s).matched}
    IN IF starts = {} THEN 0 ELSE CHOOSE s \in starts : \A t \in starts : s <= t

\* The closing quote of "([^"]*(?:""[^"]*)*)" for a value whose content
\* starts at p: a pair of quotes is taken as content while a closing quote
\* follows later, and its first quote closes the value otherwise.  0 when
\* the alternative does not match.
RECURSIVE closingQuote(_, _)
closingQuote(text, p) ==
    LET quotes == {q \in p..Len(text) : text[q] = "\""}
        q1 == CHOOSE q \in quotes : \A r \in quotes : q <= r
    IN IF quotes = {} THEN 0
       ELSE IF charAt(text, q1 + 1) = "\""
            THEN LET later == closingQuote(text, q1 + 2)
                 IN IF later # 0 THEN later ELSE q1
            ELSE q1

\* The end of ([^\,\r\n]*) for a value that starts at p: the position after it
unquotedEnd(text, p) ==
    LET stops == {q \in p..Len(text) : text[q] \in {",", "\r", "\n"}}
    IN IF stops = {} THEN Len(text) + 1 ELSE CHOOSE q \in stops : \A r \in stops : q <= r

\* text.substring(from - 1, to).replace(/""/g, "\"")
RECURSIVE unescaped(_, _, _)
unescaped(text, from, to) ==
    IF from > to THEN ""
    ELSE IF text[from] = "\"" /\ from < to /\ text[from + 1] = "\""
         THEN "\"" \o unescaped(text, from + 2, to)
         ELSE text[from] \o unescaped(text, from + 1, to)

\* What a call of parseCSV comes to: a grid, a TypeError, or a loop that
\* does not end.
Returned(data) == [outcome |-> "returns", grid |-> data]
Threw == [outcome |-> "throws", grid |-> <<>>]
Hung == [outcome |-> "hangs", grid |-> <<>>]
NotCalled == [outcome |-> "none", grid |-> <<>>]

\* The loop of parseCSV, with lastIndex = from - 1 and the rows made so far
RECURSIVE parseFrom(_, _, _)
parseFrom(text, from, data) ==
    LET s == matchStart(text, from) IN
    IF s = 0 THEN Returned(data)
    ELSE LET delimiter == delimiterAt(text, s)
             p == s + delimiter.length
             closing == IF charAt(text, p) = "\"" THEN closingQuote(text, p + 1) ELSE 0
             end == IF closing # 0 THEN closing + 1 ELSE unquotedEnd(text, p)
             cell == IF closing # 0 THEN Str(unescaped(text, p + 1, closing - 1))
                     ELSE IF end = p THEN Undef
                     ELSE Str(unescaped(text, p, end - 1))
             rows == IF delimiter.delimiter # "," THEN Append(data, <<>>) ELSE data
         IN IF rows = <<>> THEN Threw
            ELSE IF end = s THEN Hung
            ELSE parseFrom(text, end, [rows EXCEPT ![Len(rows)] = Append(@, cell)])

\* The last line is dropped when it is a single undefined value after
\* another line.
withoutStrayLine(data) ==
    IF Len(data) > 1 /\ data[Len(data)] = <<Undef>>
    THEN SubSeq(data, 1, Len(data) - 1)
    ELSE data

parseCSV(text) ==
    IF text = <<>> THEN Returned(<<>>)
    ELSE LET parsed == parseFrom(text, 1, <<>>)
         IN IF parsed.outcome = "returns" THEN Returned(withoutStrayLine(parsed.grid))
            ELSE parsed

\* The texts explored: up to MaxText characters, of the separators, the
\* quote and one other character.
MaxText == 4
CsvCharacters == {",", "\n", "\r", "\"", "a"}
CsvTexts == UNION {[1..n -> CsvCharacters] : n \in 0..MaxText}

InitCsv ==
    /\ \E text \in CsvTexts :
           csv = [text |-> text, parsed |-> FALSE, result |-> NotCalled,
                  resultWithNewline |-> NotCalled]
    /\ db = newDatabase
    /\ loader = NoLoader
    /\ simQuery = NoQuery
    /\ simThreshold = 0
    /\ similar = <<>>
    /\ simCalled = FALSE
    /\ pcoord = NoComponent
    /\ gesture = NoGesture
    /\ last = Ran("new")
    /\ codec = NoCodec
    /\ pass = NoPass
    /\ pick = NoPick

\* parseCSV(csvText) and parseCSV(csvText + "\n")
ParseCSV ==
    /\ ~csv.parsed
    /\ csv' = [csv EXCEPT !.parsed = TRUE,
                          !.result = parseCSV(csv.text),
                          !.resultWithNewline = parseCSV(Append(csv.text, "\n"))]
    /\ UNCHANGED <<db, loader, simVars, pcoord, gesture, last, codec, pass, pick>>

NextCsv == ParseCSV

SpecCsv == InitCsv /\ [][NextCsv]_vars

----------------------------------------------------------------------------
(* The pick-index codec of the canvas components                           *)

\* The indices explored: -1 and the first CodecSpan indices, and those
\* within CodecWindow of a change of the green or blue channel and of the
\* greatest index.
CodecSpan == 300
CodecWindow == 3
CodecIndices ==
    (-1..CodecSpan) \cup
    UNION {(c - CodecWindow)..(c + CodecWindow) :
              c \in {256 * 256, 255 * 256 * 256, 256 * 256 * 256}}

InitCodec ==
    /\ \E i \in CodecIndices :
           codec = [index |-> i, encoded |-> FALSE, color |-> <<0, 0, 0>>, decoded |-> 0]
    /\ db = newDatabase
    /\ loader = NoLoader
    /\ csv = NoCsv
    /\ simQuery = NoQuery
    /\ simThreshold = 0
    /\ similar = <<>>
    /\ simCalled = FALSE
    /\ pcoord = NoComponent
    /\ gesture = NoGesture
    /\ last = Ran("new")
    /\ pass = NoPass
    /\ pick = NoPick

\* An index is drawn in its colour and the colour is read back.
EncodeIndex ==
    /\ ~codec.encoded
    /\ codec' = [codec EXCEPT !.encoded = TRUE,
                              !.color = indexToColor(codec.index),
                              !.decoded = colorToIndex(indexToColor(codec.index))]
    /\ UNCHANGED <<db, loader, csv, simVars, pcoord, gesture, last, pass, pick>>

NextCodec == EncodeIndex

SpecCodec == InitCodec /\ [][NextCodec]_vars

----------------------------------------------------------------------------
(* The draw specification: the draw passes of one canvas component over a  *)
(* selection long enough for a pass to span several ticks                  *)

\* The greatest number of selected rows explored.
MaxQueue == 52

\* The greatest number of ticks counted after the start of a pass.
MaxTicks == 4

\* Selections: the rows lo..(lo + n - 1), in ascending order as
\* updateSelection builds them.
DrawSelections ==
    {[p \in 1..n |-> lo + p - 1] : lo \in 0..1, n \in 0..MaxQueue}

\* The fields of a canvas component that its draw passes read and write:
\* the constructor ends in updateSize, which ends in redrawPaths.
newCanvas(selection) ==
    redrawPaths([selection |-> selection,
                 drawIterator |-> NoIterator,
                 loading |-> FALSE,
                 interval |-> TRUE,
                 painted |-> <<>>,
                 events |-> <<>>])

\* PcoordCanvas.prototype.destroy: clearInterval(this.interval)
destroy(st) == [st EXCEPT !.interval = FALSE]

\* The pass started by the call that has just returned: the selection it was
\* started for, whether it came while a pass was part-way through its queue,
\* and a mark that changes from each pass to the next.
Started(st, before, turn) ==
    [queue |-> st.selection, ticks |-> 0, done |-> FALSE,
     replaced |-> before.drawIterator.live /\ before.drawIterator.i > 0,
     turn |-> turn]

InitDraw ==
    /\ pcoord = newCanvas([p \in 1..MaxQueue |-> p - 1])
    /\ pass = Started(pcoord, [drawIterator |-> NoIterator], 0)
    /\ db = newDatabase
    /\ loader = NoLoader
    /\ csv = NoCsv
    /\ codec = NoCodec
    /\ pick = NoPick
    /\ simQuery = NoQuery
    /\ simThreshold = 0
    /\ similar = <<>>
    /\ simCalled = FALSE
    /\ gesture = NoGesture
    /\ last = Ran("new")

DrawUnchanged == UNCHANGED <<db, loader, csv, codec, pick, simVars, gesture>>

\* updateSelection finds another selection (or is forced) and redraws.
SelectionChange(selection, force) ==
    /\ pcoord' = selectionBecomes(Entering, selection, force)
    /\ pass' = IF pcoord'.events # <<>> THEN Started(pcoord', pcoord, 1 - pass.turn) ELSE pass
    /\ last' = Ran("updateSelection")
    /\ DrawUnchanged

\* redrawPaths called with the selection unchanged (resize, axis reordering).
Redraw ==
    /\ pcoord' = redrawPaths(Entering)
    /\ pass' = Started(pcoord', pcoord, 1 - pass.turn)
    /\ last' = Ran("redrawPaths")
    /\ DrawUnchanged

\* The interval's callback, for as long as the interval is not cleared.
DrawTick ==
    /\ pcoord.interval
    /\ pcoord' = intervalTick(Entering)
    /\ pass' = IF pass.done THEN pass
               ELSE [pass EXCEPT !.ticks = IF @ < MaxTicks THEN @ + 1 ELSE @,
                                 !.done = ~pcoord'.drawIterator.live]
    /\ last' = Ran("interval")
    /\ DrawUnchanged

Destroy ==
    /\ pcoord.interval
    /\ pcoord' = destroy(Entering)
    /\ last' = Ran("destroy")
    /\ UNCHANGED pass
    /\ DrawUnchanged

NextDraw ==
    \/ \E selection \in DrawSelections : \E force \in BOOLEAN :
           SelectionChange(selection, force)
    \/ Redraw
    \/ DrawTick
    \/ Destroy

SpecDraw == InitDraw /\ [][NextDraw]_vars

\* The selections whose passes end at, just before and just after the end of
\* a tick's batch.
BatchSelections ==
    {selection \in DrawSelections :
        Len(selection) \in {0, BatchSize - 1, BatchSize, 2 * BatchSize - 1,
                            2 * BatchSize, MaxQueue}}

NextDrawFair ==
    \/ \E selection \in BatchSelections : \E force \in BOOLEAN :
           SelectionChange(selection, force)
    \/ Redraw
    \/ DrawTick
    \/ Destroy

\* setInterval calls the callback again and again until clearInterval.
SpecDrawFair == InitDraw /\ [][NextDrawFair]_vars /\ WF_vars(DrawTick)

----------------------------------------------------------------------------
(* The pick specification: getIndexAtPoint over one 3x3 neighbourhood      *)

\* The number of pixels getIndexAtPoint reads.
Neighbourhood == 9

\* The indices whose colours the pixels take: no path, and two paths whose
\* indices are in one order as numbers and in the other as strings.
PickIndices == {-1, 2, 10}

InitPick ==
    /\ \E indices \in [1..Neighbourhood -> PickIndices] :
           pick = [pixels |-> [p \in 1..Neighbourhood |-> indexToColor(indices[p])],
                   called |-> FALSE, index |-> -1]
    /\ db = newDatabase
    /\ loader = NoLoader
    /\ csv = NoCsv
    /\ codec = NoCodec
    /\ pass = NoPass
    /\ simQuery = NoQuery
    /\ simThreshold = 0
    /\ similar = <<>>
    /\ simCalled = FALSE
    /\ pcoord = NoComponent
    /\ gesture = NoGesture
    /\ last = Ran("new")

\* The mousemove handler asks for the path under the pointer.
GetIndexAtPoint ==
    /\ ~pick.called
    /\ pick' = [pick EXCEPT !.called = TRUE, !.index = getIndexAtPoint(pick.pixels)]
    /\ UNCHANGED <<db, loader, csv, codec, pass, simVars, pcoord, gesture, last>>

NextPick == GetIndexAtPoint

SpecPick == InitPick /\ [][NextPick]_vars

----------------------------------------------------------------------------
(* Claims about the selection (checked under SpecBrush and Spec)           *)

Ascending(seq) == \A j, k \in 1..Len(seq) : j < k => seq[j] < seq[k]
RowIndices == 0..(Len(db.data) - 1)

\* The rendered position of row i on dimension d.
PositionOf(st, d, i) == getYPosition(db, st, d, db.data[i + 1])

\* The displayed dimensions that carry an extent.
Active(st) == {d \in Range(st.dimensions) : d \in DOMAIN st.brushExtents}

InsideAll(st, i) ==
    \A d \in Active(st) :
        /\ YLeq(st.brushExtents[d][1], PositionOf(st, d, i))
        /\ YLeq(PositionOf(st, d, i), st.brushExtents[d][2])

SelectionExact(st) ==
    /\ Ascending(st.selection)
    /\ Range(st.selection) = {i \in RowIndices : InsideAll(st, i)}

\* C1: a handler that runs updateSelection (a brush event, setSelection)
\* leaves as the selection the row indices, ascending and each once, of
\* exactly the rows whose position lies in [lo, hi], ends included, on every
\* displayed dimension that carries an extent; every row when none does.
ThmC1_UpdateSelectionExact ==
    last.op \in {"axisBrush", "setSelection"} => SelectionExact(pcoord)

\* A brush event has just changed the selection to row 1 alone, which lies
\* exactly on the lower end of the extent of a, under extents on a and c.
WitC1_RowOnTheEdge ==
    /\ last.op = "axisBrush"
    /\ eventsOf(pcoord, "selectionchange") # <<>>
    /\ Active(pcoord) = {"a", "c"}
    /\ pcoord.brushExtents["a"][2] = PositionOf(pcoord, "a", 1)
    /\ pcoord.selection = <<1>>

\* C2 (as stated): whenever control is back in the event loop, the stored
\* selection is the set of the rows that satisfy every stored brush extent
\* under the current scales.
CexC2_SelectionReflectsExtents ==
    pcoord # NoComponent =>
        Range(pcoord.selection) = {i \in RowIndices : InsideAll(pcoord, i)}

Restrict(f, D) == [x \in D |-> f[x]]
SelectionUnder(extents) ==
    Range(newSelectionFrom(db, [pcoord EXCEPT !.brushExtents = extents], 1))

\* C3: with the data and the scales fixed, the selection computed under the
\* extents of a state is a subset of the selection computed under the extents
\* of any part of its brushed dimensions: a further brush never adds a row.
ThmC3_ConjunctionNarrows ==
    pcoord # NoComponent =>
        \A D \in SUBSET (DOMAIN pcoord.brushExtents) :
            /\ SelectionUnder(pcoord.brushExtents)
                  \subseteq SelectionUnder(Restrict(pcoord.brushExtents, D))
            /\ Cardinality(SelectionUnder(pcoord.brushExtents))
                  <= Cardinality(SelectionUnder(Restrict(pcoord.brushExtents, D)))

\* Two brushed dimensions, each of which alone selects two rows, and which
\* together select one.
WitC3_TwoBrushesNarrow ==
    /\ pcoord # NoComponent
    /\ Cardinality(DOMAIN pcoord.brushExtents) = 2
    /\ Cardinality(SelectionUnder(pcoord.brushExtents)) = 1
    /\ \A d \in DOMAIN pcoord.brushExtents :
          Cardinality(SelectionUnder(Restrict(pcoord.brushExtents, {d}))) = 2

\* The extent setSelection(S) puts on dimension d: the least and the greatest
\* position of the rows of S, less and plus five pixels.
PaddedExtent(st, d, S, extent) ==
    /\ \E i \in S :
          /\ \A j \in S : YLeq(PositionOf(st, d, i), PositionOf(st, d, j))
          /\ extent[1] = YPlus(PositionOf(st, d, i), -(5 * PX))
    /\ \E i \in S :
          /\ \A j \in S : YLeq(PositionOf(st, d, j), PositionOf(st, d, i))
          /\ extent[2] = YPlus(PositionOf(st, d, i), 5 * PX)

ExtentsAround(st, S) ==
    \A d \in Range(st.dimensions) :
        d \in DOMAIN st.brushExtents /\ PaddedExtent(st, d, S, st.brushExtents[d])

\* C4: setSelection(S), S not empty, leaves on every displayed dimension the
\* extent [min - 5, max + 5] of the positions of the rows of S, and as the
\* selection exactly the rows inside every extent, the rows of S among them.
ThmC4_SetSelectionExtents ==
    last.op = "setSelection" =>
        /\ ExtentsAround(pcoord, last.S)
        /\ SelectionExact(pcoord)
        /\ last.S \subseteq Range(pcoord.selection)

\* setSelection({0, 2}) has just replaced a selection by rows 0 and 2, with
\* an extent on all three dimensions and row 1 outside.
WitC4_TwoRowsSet ==
    /\ last = RanSetSelection({0, 2})
    /\ eventsOf(pcoord, "selectionchange") # <<>>
    /\ ExtentsAround(pcoord, {0, 2})
    /\ pcoord.selection = <<0, 2>>

----------------------------------------------------------------------------
(* Claims about axis dragging (checked under SpecDrag)                     *)

\* The effective x position during a movement of d to x: the clamped pointer
\* coordinate for d, the position of the scale for every other dimension.
EffectiveX(q, d, x) ==
    IF q = d THEN Min(pcoord.internalWidth, Max(0, x)) ELSE xScale(pcoord, q)

\* order is the order before the movement re-sorted by effective x, dimensions
\* with the same position keeping their order.
Resorted(order, d, x) ==
    /\ Len(order) = Len(pcoord.dimensions)
    /\ Range(order) = Range(pcoord.dimensions)
    /\ \A j, k \in 1..Len(order) :
          j < k =>
            \/ EffectiveX(order[j], d, x) < EffectiveX(order[k], d, x)
            \/ /\ EffectiveX(order[j], d, x) = EffectiveX(order[k], d, x)
               /\ indexOf(pcoord.dimensions, order[j]) < indexOf(pcoord.dimensions, order[k])

\* C5: a movement of a dragged axis leaves the dimensions re-sorted by
\* effective x; it dispatches axisorderchange only if that order differs from
\* the order before the movement, at most once and with the new order as the
\* payload, and dispatches nothing when the order is the same.
ThmC5_OrderChangeEvents ==
    [][ \A d \in Displayed : \A x \in PointerXs :
            TrackedDrag(d, x) =>
                LET fired == eventsOf(pcoord', "axisorderchange") IN
                /\ Resorted(pcoord'.dimensions, d, x)
                /\ (fired # <<>> =>
                      /\ pcoord'.dimensions # pcoord.dimensions
                      /\ Len(fired) = 1
                      /\ fired[1].payload = pcoord'.dimensions)
                /\ (pcoord'.dimensions = pcoord.dimensions => fired = <<>>) ]_vars

\* A movement has just changed the order and dispatched the new order, after
\* a movement of the same gesture that dispatched nothing.
WitC5_SecondMovementReorders ==
    /\ gesture.phase = "dragging"
    /\ gesture.moves = 2
    /\ gesture.count = 1
    /\ pcoord.dimensions # gesture.before
    /\ gesture.before = gesture.order0
    /\ eventsOf(pcoord, "axisorderchange")
          = <<[type |-> "axisorderchange", payload |-> pcoord.dimensions]>>

\* The position of the slot of dimension q when the gesture started.
SlotAtStart(q) ==
    (pcoord.internalWidth * indexOf(gesture.order0, q)) \div (Len(gesture.order0) + 1)

\* The released axis was dragged in one direction past the slot of its
\* neighbour at index nb of the starting order and past that of no other axis
\* (beyond being the index of the axis after nb in that direction, if any).
PassedOnly(nb, beyond) ==
    /\ nb \in 1..Len(gesture.order0)
    /\ IF gesture.dir = "up"
       THEN /\ gesture.lastX > SlotAtStart(gesture.order0[nb])
            /\ beyond \in 1..Len(gesture.order0)
                  => gesture.lastX <= SlotAtStart(gesture.order0[beyond])
       ELSE /\ gesture.lastX < SlotAtStart(gesture.order0[nb])
            /\ beyond \in 1..Len(gesture.order0)
                  => gesture.lastX >= SlotAtStart(gesture.order0[beyond])

\* order with the elements at indices j and k exchanged
Swapped(order, j, k) ==
    [n \in 1..Len(order) |-> IF n = j THEN order[k] ELSE IF n = k THEN order[j] ELSE order[n]]

DraggedPastNeighbour ==
    /\ gesture.phase = "released"
    /\ gesture.dir \in {"up", "down"}
    /\ LET p == indexOf(gesture.order0, gesture.dim) IN
       IF gesture.dir = "up" THEN PassedOnly(p + 1, p + 2) ELSE PassedOnly(p - 1, p - 2)

\* C6: an axis dragged in one direction past the slot of its immediate
\* neighbour, and past no other axis, in any number of movements, and then
\* released, has dispatched exactly one axisorderchange in the whole gesture,
\* whose payload is the starting order with the two axes exchanged.
ThmC6_OneEventPerSwap ==
    DraggedPastNeighbour =>
        LET p == indexOf(gesture.order0, gesture.dim)
            nb == IF gesture.dir = "up" THEN p + 1 ELSE p - 1
        IN /\ gesture.count = 1
           /\ gesture.payload = Swapped(gesture.order0, p, nb)
           /\ pcoord.dimensions = Swapped(gesture.order0, p, nb)

\* The first axis was dragged to the right in three movements past the second
\* and released.
WitC6_ThreeMovements ==
    /\ DraggedPastNeighbour
    /\ gesture.moves = 3
    /\ indexOf(gesture.order0, gesture.dim) = 1
    /\ gesture.dir = "up"
    /\ gesture.count = 1

----------------------------------------------------------------------------
(* Claims about getSimilar (checked under SpecSimilar)                     *)

Abs(x) == IF x < 0 THEN -x ELSE x
IsNumber(v) == v.k # "undef" /\ ~isNaN(v)
NumericDims == {d \in Range(db.dimensions) : ~isStringDimension(db, d)}
DomainWidth(d) == db.dimensionDomains[d][2] - db.dimensionDomains[d][1]
Queried(query) == {d \in Range(db.dimensions) : query[d].k # "undef"}

\* A common denominator of the normalized values: the product of the non-zero
\* domain widths of the numeric dimensions.
RECURSIVE WidthProduct(_)
WidthProduct(p) ==
    IF p > Len(db.dimensions) THEN 1
    ELSE LET d == db.dimensions[p] IN
         (IF d \in NumericDims /\ DomainWidth(d) # 0 THEN DomainWidth(d) ELSE 1)
         * WidthProduct(p + 1)
CommonDen == WidthProduct(1)

\* The cases the distance is defined by: every categorical dimension, and a
\* numeric dimension whose query value is a number and whose row value is
\* missing or a number.
StatedCase(query, row, d) ==
    \/ isStringDimension(db, d)
    \/ IsNumber(query[d]) /\ (row[d] = Undef \/ IsNumber(row[d]))

\* The stated per-dimension term, times CommonDen.
StatedTerm(query, row, d) ==
    IF isStringDimension(db, d) THEN (IF LooseEq(row[d], query[d]) THEN 0 ELSE CommonDen)
    ELSE IF row[d] = Undef THEN CommonDen
    ELSE IF DomainWidth(d) = 0 THEN 0
    ELSE Abs(ToNumber(query[d]) - ToNumber(row[d])) * (CommonDen \div DomainWidth(d))

RECURSIVE StatedDistance(_, _, _)
StatedDistance(query, row, p) ==
    IF p > Len(db.dimensions) THEN 0
    ELSE (IF db.dimensions[p] \in Queried(query)
          THEN StatedTerm(query, row, db.dimensions[p]) ELSE 0)
         + StatedDistance(query, row, p + 1)

IsNaNValue(v) == v.k # "undef" /\ isNaN(v)

\* C8 (as stated): on a numeric dimension whose query value is NaN, a row
\* adds 0 when its own value is NaN and 1 otherwise, a missing value being
\* not NaN; so with only that dimension queried a row is returned exactly
\* when that term is at most the threshold.
CexC8_NaNQueryTerm ==
    (simCalled /\ Queried(simQuery) = {"a"} /\ "a" \in NumericDims /\ isNaN(simQuery["a"]))
    => \A i \in RowIndices :
          i \in Range(similar)
            <=> (IF IsNaNValue(db.data[i + 1]["a"]) THEN 0 ELSE NormScale) <= simThreshold

\* C9: every row getSimilar returned for the threshold of the call is returned
\* for every larger threshold.
ThmC9_MonotoneInThreshold ==
    simCalled =>
        \A t \in simThreshold..(MaxThreshold + 1) :
            Range(similar) \subseteq Range(getSimilar(db, simQuery, t))

\* A call that returned a row and left one out, which a larger threshold returns.
WitC9_GrowingResult ==
    /\ simCalled
    /\ Len(similar) = 1
    /\ Len(db.data) = 2
    /\ \E t \in simThreshold..(MaxThreshold + 1) : Len(getSimilar(db, simQuery, t)) = 2

----------------------------------------------------------------------------
(* Claims about loading (checked under SpecLoad)                           *)

\* data.csv has been accepted: the dimensions, types and domains are set.
Accepted == loader.dataCsv.status = "parsed" /\ db.error = Undef

RECURSIVE firstPresentFrom(_, _, _)
firstPresentFrom(rows, d, i) ==
    IF i > Len(rows) THEN Undef
    ELSE IF rows[i][d] # Undef THEN rows[i][d]
    ELSE firstPresentFrom(rows, d, i + 1)

\* The type the first present value v of a column stands for: every number
\* of the model is integral, and the text NaN is the one non-integral value.
TypeOfValue(v) ==
    IF v.k = "str" /\ v.s \in {"NaN", "nan", "Nan", "NAN"} THEN TYPE_FLOAT
    ELSE IF v.k = "str" /\ v.s # "" /\ ~isNaN(v) THEN TYPE_INTEGER
    ELSE TYPE_STRING

\* C11: the type of each dimension is the type of the first present value of
\* its column: INTEGER for an integral number, FLOAT for NaN, STRING otherwise.
CexC11_TypeOfFirstPresent ==
    Accepted =>
        \A d \in Range(db.dimensions) :
            db.dimensionTypes[d] = TypeOfValue(firstPresentFrom(db.data, d, 1))

\* The numbers of column d: the cells that are neither missing nor NaN.
NumericValues(rows, d) ==
    {ToNumber(rows[i][d]) : i \in {i \in 1..Len(rows) : ~isNaN(rows[i][d])}}

\* C12: the domain of a numeric dimension is <<min, max>> over the cells of
\* its column that are neither missing nor NaN, and <<0, 0>> when there is
\* no such cell.
ThmC12_NumericDomain ==
    Accepted =>
        \A d \in Range(db.dimensions) :
            db.dimensionTypes[d] # TYPE_STRING =>
                LET V == NumericValues(db.data, d)
                    dom == db.dimensionDomains[d]
                IN /\ dom[1] <= dom[2]
                   /\ IF V = {} THEN dom = <<0, 0>>
                      ELSE /\ dom[1] \in V
                           /\ dom[2] \in V
                           /\ \A v \in V : dom[1] <= v /\ v <= dom[2]

\* A column 1, NaN, 3 has been loaded, with domain <<1, 3>>.
WitC12_NaNBetweenNumbers ==
    /\ Accepted
    /\ Len(db.data) = 3
    /\ "a" \in Range(db.dimensions)
    /\ [i \in 1..3 |-> db.data[i]["a"]] = <<Str("1"), Str("NaN"), Str("3")>>
    /\ db.dimensionTypes["a"] # TYPE_STRING
    /\ db.dimensionDomains["a"] = <<1, 3>>

\* The four checks of the primary table, stated on the grid.
TooFewLines(grid) == Len(grid) < 2
TooFewColumns(grid) == Len(grid) >= 1 /\ Len(grid[1]) < 2
MissingHeaderCell(grid) == Len(grid) >= 1 /\ \E j \in 1..Len(grid[1]) : grid[1][j] = Undef
RaggedLines(grid) == \E i \in 1..Len(grid) : Len(grid[i]) # Len(grid[1])
FailsValidation(grid) ==
    TooFewLines(grid) \/ TooFewColumns(grid) \/ MissingHeaderCell(grid) \/ RaggedLines(grid)

\* The load was rejected with a validation error: error holds a message and
\* nothing of the table was stored.
Rejected == db.error # Undef /\ db.dimensions = <<>> /\ db.data = <<>> /\ ~db.loaded

FetchError == loader.dataCsv.status = "failed"
ValidationError ==
    loader.dataCsv.status = "parsed" /\ FailsValidation(loader.dataCsv.grid)
FatalError == FetchError \/ ValidationError

CallsOf(fn) == {i \in 1..Len(loader.calls) : loader.calls[i].fn = fn}

\* C14: on every fatal load error errorCallback has been invoked with a
\* non-empty message as its argument.
CexC14_ErrorMessagePassed ==
    FatalError =>
        \E i \in CallsOf("errorCallback") :
            /\ Len(loader.calls[i].args) >= 1
            /\ loader.calls[i].args[1].k = "str"
            /\ loader.calls[i].args[1].s # ""

\* The axis_order.csv request has resolved: found (valid or invalid) or failed.
AxisResolved(status) == status \in {"parsed", "failed"}

\* C15: callback is invoked only by a load that finishes without a fatal
\* error, once, when loaded is true and the axis_order.csv request has
\* resolved, and then errorCallback is not invoked; after a fatal error
\* callback is not invoked, loaded is false and data and dimensions are empty.
ThmC15_CallbackOnceWhenLoaded ==
    /\ \A i \in CallsOf("callback") :
           loader.calls[i].loaded /\ AxisResolved(loader.calls[i].axisCsv)
    /\ Cardinality(CallsOf("callback")) <= 1
    /\ AxisResolved(loader.axisCsv.status) <=> Cardinality(CallsOf("callback")) = 1
    /\ db.loaded <=> Cardinality(CallsOf("callback")) = 1
    /\ Cardinality(CallsOf("callback")) = 1 => ~FatalError /\ CallsOf("errorCallback") = {}
    /\ FatalError =>
           /\ CallsOf("callback") = {}
           /\ ~db.loaded
           /\ db.data = <<>>
           /\ db.dimensions = <<>>
           /\ loader.axisCsv = NotSent

\* A load has finished on a failed axis_order.csv request, and called back.
WitC15_LoadedWithoutAxisFile ==
    /\ loader.axisCsv.status = "failed"
    /\ db.loaded
    /\ Len(loader.calls) = 1
    /\ loader.calls[1].fn = "callback"
    /\ loader.calls[1].loaded

\* The defects of an axis-order grid that the dataset's dimensions dims show.
AxisTooFewLines(grid) == Len(grid) < 2
AxisRagged(grid) == \E i \in 1..Len(grid) : Len(grid[i]) # Len(grid[1])
AxisUnknownName(grid, dims) ==
    /\ Len(grid) >= 1
    /\ \E j \in 3..Len(grid[1]) : grid[1][j] = Undef \/ grid[1][j].s \notin Range(dims)
AxisNonNumeric(grid) ==
    \E i \in 2..Len(grid) : \E j \in 3..Len(grid[i]) :
        grid[i][j] # Undef /\ isNaN(grid[i][j])
BadAxisFile ==
    \/ loader.axisCsv.status = "failed"
    \/ /\ loader.axisCsv.status = "parsed"
       /\ \/ AxisTooFewLines(loader.axisCsv.grid)
          \/ AxisRagged(loader.axisCsv.grid)
          \/ AxisUnknownName(loader.axisCsv.grid, db.dimensions)
          \/ AxisNonNumeric(loader.axisCsv.grid)

\* The dataset as data.csv alone defines it.
DatasetOf(grid) ==
    Database([i \in 1..(Len(grid) - 1) |-> rowObject(headerNames(grid[1]), grid[i + 1])],
             headerNames(grid[1]))

RowsOfCategory(grid, c) == SelectSeq(Tail(grid), LAMBDA row : cellAt(row, 1) = c)

\* Column x of a row comes before column y (0-based, x # y): by ascending
\* priority, a missing priority after every present one, and by column
\* otherwise.
ComesBefore(keys, x, y) ==
    LET a == keys[x + 1]
        b == keys[y + 1]
    IN \/ a # Undef /\ b = Undef
       \/ a # Undef /\ b # Undef /\ ToNumber(a) < ToNumber(b)
       \/ a # Undef /\ b # Undef /\ ToNumber(a) = ToNumber(b) /\ x < y
       \/ a = Undef /\ b = Undef /\ x < y

\* The ordering of a row: the names of columns 3 onward in that order.
StatedOrdering(grid, row) ==
    LET keys == axisPriorities(grid, row)
        p == CHOOSE p \in [1..Len(keys) -> 0..(Len(keys) - 1)] :
                 /\ \A j, k \in 1..Len(keys) : j # k => p[j] # p[k]
                 /\ \A j, k \in 1..Len(keys) : j < k => ComesBefore(keys, p[j], p[k])
    IN [j \in 1..Len(keys) |-> axisNames(grid)[p[j] + 1]]

\* C17: the ordering built for each data row of a valid axis-order table is
\* the header's dimension names sorted ascending by the row's priorities,
\* equal priorities in column order, missing priorities last and in column
\* order among themselves.
CexC17_OrderingOfEachRow ==
    db.hasAxisOrdering =>
        \A c \in DOMAIN db.axisOrderData :
            /\ Len(db.axisOrderData[c]) = Len(RowsOfCategory(loader.axisCsv.grid, c))
            /\ \A k \in 1..Len(db.axisOrderData[c]) :
                   db.axisOrderData[c][k].order =
                       StatedOrdering(loader.axisCsv.grid,
                                      RowsOfCategory(loader.axisCsv.grid, c)[k])

----------------------------------------------------------------------------
(* Claims about parseCSV (checked under SpecCsv)                           *)

\* The text starts with an empty quoted field.
StartsWithEmptyQuoted(text) ==
    /\ charAt(text, 1) = "\""
    /\ charAt(text, 2) = "\""
    /\ charAt(text, 3) \in {"", ",", "\r", "\n"}

\* C18: parseCSV returns a grid for every text, in which an empty unquoted
\* field is an undefined cell and an empty quoted field is the empty string,
\* the first field of the first line included.
CexC18_EmptyFieldsOfEveryText ==
    csv.parsed =>
        /\ csv.result.outcome = "returns"
        /\ charAt(csv.text, 1) \in {",", "\r", "\n"} =>
               Len(csv.result.grid) >= 1 /\ csv.result.grid[1][1] = Undef
        /\ StartsWithEmptyQuoted(csv.text) =>
               Len(csv.result.grid) >= 1 /\ csv.result.grid[1][1] = Str("")

EndsWithLineBreak(text) == charAt(text, Len(text)) \in {"\r", "\n"}

\* The line breaks of a text: each \r\n, and each other \r or \n.
LineBreaks(text) ==
    Cardinality({p \in 1..Len(text) :
        text[p] = "\n" \/ (text[p] = "\r" /\ charAt(text, p + 1) # "\n")})

\* C19: for a text of at least one line, without the final newline,
\* parseCSV(text + newline) is the grid parseCSV(text); only the line the
\* final newline adds is dropped, so a text without quotes has one row per
\* line, the blank ones included.
CexC19_FinalNewlineAddsNoRow ==
    (csv.parsed /\ csv.text # <<>> /\ ~EndsWithLineBreak(csv.text)) =>
        /\ csv.result.outcome = "returns"
        /\ csv.resultWithNewline = csv.result
        /\ (\A p \in 1..Len(csv.text) : csv.text[p] # "\"") =>
               Len(csv.result.grid) = LineBreaks(csv.text) + 1

----------------------------------------------------------------------------
(* Claims about the pick-index codec (checked under SpecCodec)             *)

\* The indices the codec is meant for: -1 (no item) up to 256^3 - 2.
CodedRange(i) == -1 <= i /\ i <= 256 * 256 * 256 - 2

\* C20: for an index in -1..256^3-2 the three channels of indexToColor are
\* in 0..255 and colorToIndex reads the index back, so no other index of the
\* range has the same colour, and -1 is black.
ThmC20_CodecRoundTrip ==
    (codec.encoded /\ CodedRange(codec.index)) =>
        /\ \A c \in 1..3 : codec.color[c] \in 0..255
        /\ codec.decoded = codec.index
        /\ \A j \in CodecIndices :
               CodedRange(j) /\ j # codec.index => indexToColor(j) # codec.color
        /\ codec.index = -1 => codec.color = <<0, 0, 0>>

\* The greatest index of the range has been coded as white and read back.
WitC20_GreatestIndex ==
    /\ codec.encoded
    /\ codec.index = 256 * 256 * 256 - 2
    /\ codec.color = <<255, 255, 255>>
    /\ codec.decoded = codec.index

\* C21: for every index above 256^3 - 2 indexToColor is white, and no channel
\* is outside 0..255.
CexC21_SaturatesToWhite ==
    (codec.encoded /\ codec.index > 256 * 256 * 256 - 2) =>
        /\ codec.color = <<255, 255, 255>>
        /\ \A c \in 1..3 : codec.color[c] \in 0..255

----------------------------------------------------------------------------
(* Claims about the draw passes (checked under SpecDraw)                   *)

\* The item a pass over queue paints for queue position p (counted from 0).
ItemOf(queue, p) == [row |-> queue[p + 1], color |-> indexToColor(p)]

\* What lies on the selected and index canvases is the first items of queue.
PaintedFrom(queue) ==
    /\ Len(pcoord.painted) <= Len(queue)
    /\ \A p \in 1..Len(pcoord.painted) : pcoord.painted[p] = ItemOf(queue, p - 1)

\* C22: a redraw replaces the pass in flight at once: when it returns the
\* selected and index canvases are clear and the one pending pass is over the
\* selection of the call, and whatever is painted from then on is the next
\* items of that pass, never an item of a replaced pass.
ThmC22_RedrawReplacesPass ==
    /\ PaintedFrom(pass.queue)
    /\ pcoord.drawIterator.live =>
           /\ pcoord.drawIterator.queue = pass.queue
           /\ pcoord.drawIterator.i = Len(pcoord.painted)
    /\ last.op \in {"redrawPaths", "updateSelection"} /\ pcoord.events # <<>> =>
           pcoord.painted = <<>> /\ pcoord.drawIterator.live
    /\ last.op = "redrawPaths" => pcoord.painted = <<>> /\ pcoord.drawIterator.live

\* A pass that replaced another part-way through its queue, over rows the
\* replaced pass did not start with, has painted its first batch and goes on.
WitC22_NewPassPainting ==
    /\ pass.replaced
    /\ pass.queue # <<>> /\ pass.queue[1] = 1
    /\ last.op = "interval"
    /\ Len(pcoord.painted) = BatchSize
    /\ pcoord.drawIterator.live

\* C23: at every event-loop boundary the 'Drawing...' indicator is visible
\* exactly when a draw pass is pending.
CexC23_IndicatorWhenPending ==
    pcoord.loading <=> pcoord.drawIterator.live

----------------------------------------------------------------------------
(* Claims about resizing and brush events (checked under Spec)             *)

\* The extents updateSize leaves for the extents before it, on a chart whose
\* internal height goes from oldHeight to newHeight.
RescaledExtents(extents, oldHeight, newHeight) ==
    LET scaled == [d \in DOMAIN extents |->
                      <<rescale(extents[d][1], oldHeight, newHeight),
                        rescale(extents[d][2], oldHeight, newHeight)>>]
    IN [d \in {e \in DOMAIN extents : scaled[e][1] # scaled[e][2]} |-> scaled[d]]

\* C24: updateSize stores every extent multiplied by newHeight/oldHeight
\* without recomputing the selection or emitting selectionchange, and leaves
\* dontUpdateSelectionOnBrush false, so that the brush event after it
\* recomputes the selection.
ThmC24_ResizeSuppressesSelection ==
    [][/\ last'.op = "updateSize" =>
              /\ pcoord'.brushExtents =
                     RescaledExtents(pcoord.brushExtents, pcoord.internalHeight,
                                     pcoord'.internalHeight)
              /\ pcoord'.selection = pcoord.selection
              /\ eventsOf(pcoord', "selectionchange") = <<>>
              /\ ~pcoord'.dontUpdateSelectionOnBrush
       /\ last.op = "updateSize" /\ last'.op = "axisBrush" =>
              pcoord'.selection = newSelectionFrom(db, pcoord', 1)]_vars

\* A resize has rescaled a brush, and the selection it left is not the one the
\* rescaled extents select.
WitC24_ResizedWithBrush ==
    /\ last.op = "updateSize"
    /\ DOMAIN pcoord.brushExtents # {}
    /\ pcoord.selection # newSelectionFrom(db, pcoord, 1)

\* C25: once updateSize has completed the selection has been recomputed from
\* the rescaled extents and scales, and a selectionchange notification carrying
\* it has been emitted, whether or not the selected rows changed.
CexC25_ResizeForcesSelection ==
    last.op = "updateSize" =>
        /\ pcoord.selection = newSelectionFrom(db, pcoord, 1)
        /\ eventsOf(pcoord, "selectionchange") # <<>>
        /\ \A p \in 1..Len(pcoord.events) :
               pcoord.events[p].type = "selectionchange" =>
                   pcoord.events[p].payload = pcoord.selection

\* What a brush event reporting the extent <<c, c>> on dimension d makes of
\* the component.
AfterEmptyBrush(d, c) == axisBrush(db, Entering, d, <<c, c>>)

\* C26: no stored extent has equal ends, and a brush event that reports an
\* extent with equal ends on a dimension leaves that dimension without an
\* extent and the selection what the extents of the other dimensions select.
ThmC26_EmptyBrushCleared ==
    /\ \A d \in DOMAIN pcoord.brushExtents :
           pcoord.brushExtents[d][1] # pcoord.brushExtents[d][2]
    /\ \A d \in Displayed : \A c \in BrushCoords(pcoord.internalHeight) :
           /\ d \notin DOMAIN AfterEmptyBrush(d, c).brushExtents
           /\ \A e \in DOMAIN AfterEmptyBrush(d, c).brushExtents :
                  AfterEmptyBrush(d, c).brushExtents[e][1] # AfterEmptyBrush(d, c).brushExtents[e][2]
           /\ AfterEmptyBrush(d, c).selection =
                  newSelectionFrom(db, [pcoord EXCEPT !.brushExtents = Without(@, d)], 1)

\* A brushed dimension on which an event with equal ends removes the extent
\* and brings back into the selection the rows the extent had excluded.
WitC26_BrushCollapsed ==
    \E d \in DOMAIN pcoord.brushExtents : \E c \in BrushCoords(pcoord.internalHeight) :
        /\ d \notin DOMAIN AfterEmptyBrush(d, c).brushExtents
        /\ Len(AfterEmptyBrush(d, c).selection) > Len(pcoord.selection)
        /\ eventsOf(AfterEmptyBrush(d, c), "selectionchange") # <<>>

----------------------------------------------------------------------------
(* Claims about picking (checked under SpecPick)                           *)

\* The pixels of the neighbourhood whose colour, alpha apart, decodes to k.
SamplesOf(k) == {p \in 1..Len(pick.pixels) : colorToIndex(pick.pixels[p]) = k}

\* C27: getIndexAtPoint returns k if at least 5 of the 9 pixels decode to k,
\* and -1 if no index has 5 pixels, whatever the indices and their order.
ThmC27_MajorityOfNine ==
    pick.called =>
        /\ \A k \in PickIndices : Cardinality(SamplesOf(k)) >= 5 => pick.index = k
        /\ (\A k \in PickIndices : Cardinality(SamplesOf(k)) < 5) => pick.index = -1
        /\ pick.index # -1 => Cardinality(SamplesOf(pick.index)) >= 5

\* Five pixels of path 10 alternate with four of path 2, which sorts after
\* 10 as a string, and 10 is returned.
WitC27_AlternatingPixels ==
    /\ pick.called
    /\ pick.index = 10
    /\ SamplesOf(10) = {1, 3, 5, 7, 9}
    /\ SamplesOf(2) = {2, 4, 6, 8}

\* The items of the pending pass not painted yet.
Unpainted(st) ==
    IF st.drawIterator.live THEN Len(st.drawIterator.queue) - st.drawIterator.i ELSE 0

\* C28: a tick paints the next items of the pending pass in queue order, 25
\* of them when at least 25 are unpainted and all that are left otherwise,
\* and nothing when no pass is pending.
ThmC28_BatchOfTwentyFive ==
    [][last'.op = "interval" =>
          LET batch == Len(pcoord'.painted) - Len(pcoord.painted) IN
          /\ batch >= 0 /\ batch <= 25
          /\ Unpainted(pcoord) >= 25 => batch = 25
          /\ Unpainted(pcoord) < 25 => batch = Unpainted(pcoord)
          /\ SubSeq(pcoord'.painted, 1, Len(pcoord.painted)) = pcoord.painted
          /\ \A p \in 1..batch :
                 pcoord'.painted[Len(pcoord.painted) + p].row =
                     pcoord.drawIterator.queue[pcoord.drawIterator.i + p]
          /\ ~pcoord.drawIterator.live => pcoord' = Entering]_vars

\* The second tick of a pass has painted items 25..49 and more are left.
WitC28_SecondBatch ==
    /\ last.op = "interval"
    /\ Len(pcoord.painted) = 50
    /\ Unpainted(pcoord) > 0
    /\ pass.ticks = 2

\* The pass started last has finished: every item of its queue is painted
\* once, in queue order and in the pick colour of its position, no pass is
\* pending and the indicator is hidden.
Finished ==
    /\ pass.done
    /\ ~pcoord.drawIterator.live
    /\ ~pcoord.loading
    /\ Len(pcoord.painted) = Len(pass.queue)
    /\ \A p \in 1..Len(pass.queue) :
           pcoord.painted[p] = [row |-> pass.queue[p], color |-> indexToColor(p - 1)]

\* ceil((n + 1) / 25)
TicksFor(n) == (n + 1 + 24) \div 25

\* C29: a pass over n items that no redraw replaces, in a component that is
\* not destroyed, finishes, at its tick number ceil((n+1)/25), with every
\* item painted once in queue order and in the colour indexToColor of its
\* position, the pending pass cleared and the indicator hidden.
ThmC29_PassFinishes ==
    /\ [](pass.done => Finished /\ pass.ticks = TicksFor(Len(pass.queue)))
    /\ [](~pass.done /\ pcoord.interval => pass.ticks < TicksFor(Len(pass.queue)))
    /\ \A turn \in 0..1 :
           (pass.turn = turn /\ ~pass.done /\ pcoord.interval)
               ~> (pass.turn # turn \/ ~pcoord.interval \/ Finished)

\* A pass over 50 items has finished at its third tick: the tick after the
\* two that painted the items.
WitC29_ThirdTickEndsPass ==
    /\ Finished
    /\ Len(pass.queue) = 50
    /\ pass.ticks = 3
    /\ pcoord.interval

\* C30: on a numeric dimension, a row whose value is NaN adds exactly 1 to
\* the distance from a query whose value there is a defined number; so with
\* only that dimension queried the row is returned exactly when the
\* threshold is at least 1.
CexC30_NaNRowAtDistanceOne ==
    (simCalled /\ Queried(simQuery) = {"a"} /\ "a" \in NumericDims /\ IsNumber(simQuery["a"]))
    => \A i \in RowIndices :
          IsNaNValue(db.data[i + 1]["a"]) =>
              (i \in Range(similar) <=> NormScale <= simThreshold)

====
